---- MODULE Spec2Model ----
(***************************************************************************)
(* A model of the IRCCloud watcher's streaming client: the persistence     *)
(* port (storage.DB), the stream processor (processMessage, isEIDSeen),    *)
(* the backfill fetcher (processBacklog), the connection manager          *)
(* (Connect, connectWithRetry, attemptConnection, Close, Run) and the      *)
(* backoff computation (calculateBackoffDelay).                            *)
(*                                                                         *)
(* Text is modelled as a sequence of byte values, time in whole seconds    *)
(* since the Unix epoch, durations in whole seconds.                       *)
(***************************************************************************)
EXTENDS Integers, Sequences, FiniteSets, TLC

VARIABLES
    \* ---- fields of IRCCloudClient (client.go:46-78)
    conn,               \* the connection handle: NoConn (nil) or OpenConn
    lastSeenEID,
    channels,           \* allow-list, a list
    ignoredChannels,    \* deny-list, a list
    channelSet,         \* map[string]bool built from channels
    ignoredChannelSet,  \* map[string]bool built from ignoredChannels
    connConfig,         \* *config.ConnectionConfig
    state,              \* ConnectionState
    retryCount,
    lastConnectTime,
    cancelled,          \* ctx.Err() != nil
    authResp,           \* cached *AuthResponse: NoAuth (nil) or a record
    session,            \* c.session, the session token of the last authentication
    apiHost,            \* c.apiHost, the API host of the last authentication
    eidCache,           \* keys of the map eidCache (all values are true)
    maxCacheSize,       \* the size above which isEIDSeen evicts
    \* ---- storage.DB: the rows of table messages, in id order
    db,
    \* ---- environment and control
    now,                \* wall clock, seconds
    pc,                 \* position of the goroutine running Connect / Run
    mainPc,             \* position of func main
    caller,             \* who called connectWithRetry: "Connect" or "Run"
    done,               \* the reader goroutine's error channel (cap. 1)
    result,             \* what the last connectWithRetry call returned
    delay,              \* the last value returned by calculateBackoffDelay
    reader,             \* the reader goroutine of runMessageLoop
    signals,            \* signal channels holding a signal: "interrupt" (Run), "quit" (main)
    sent,               \* the last frame written to the connection
    inbox,              \* frames received on the connection and not read yet
    orphans,            \* reader goroutines of ended message loops, still in a backlog request
    loopErr,            \* the error the last runMessageLoop call returned
    server,             \* the answers the IRCCloud endpoints may give
    authErr,            \* the error the last authenticate call returned
    dial,               \* the last dialer.Dial call: its URL and HandshakeTimeout
    timers,             \* the intervals of the tickers of the last runMessageLoop call
    \* ---- observation only (no counterpart in the program)
    insertLog,          \* per row of db: eid and serverTime of the event it came from, and the path
    outcome,            \* the branch the last processMessage call took
    backlogTrace,       \* per event of the last backlog batch: handed to the DB or not
    nframes,            \* number of processMessage calls so far
    attempts,           \* attemptConnection calls in the current connectWithRetry call
    sleeps,             \* completed backoff sleeps in the current connectWithRetry call
    authLog,            \* what the last attemptConnection did about authentication
    authTime,           \* when the cached authResp was obtained
    lastErr,            \* the error of the last failed attemptConnection
    held,               \* the socket c.conn refers to (0: none)
    openSockets         \* the sockets that were dialled and are not closed

vars == <<conn, lastSeenEID, channels, ignoredChannels, channelSet,
          ignoredChannelSet, connConfig, maxCacheSize, state, retryCount, lastConnectTime,
          cancelled, authResp, session, apiHost, eidCache, db, now, pc, mainPc, caller, done,
          result, delay, reader, signals, sent, inbox, orphans, loopErr, insertLog, outcome, backlogTrace, nframes, attempts,
          sleeps, authLog, authTime, lastErr, server, authErr, dial, timers,
          held, openSockets>>

ingestVars == <<lastSeenEID, eidCache, db, insertLog, outcome, backlogTrace, nframes>>
filterVars == <<channels, ignoredChannels, channelSet, ignoredChannelSet>>
loopVars   == <<inbox, orphans, loopErr>>
attemptVars == <<server, authErr, dial, timers, held, openSockets>>
connVars   == <<conn, state, retryCount, lastConnectTime, cancelled, authResp, session, apiHost,
                pc, mainPc, caller, done, result, reader, signals, sent,
                attempts, sleeps, authLog, authTime, lastErr>>

----------------------------------------------------------------------------
(* Bounds of the model *)

\* processMessage calls explored by the stream-processor specification
MaxFrames == 2
\* processMessage calls explored by the admission-filter specification
MaxFilterFrames == 1
\* event ids used by the stream-processor specification: 1..MaxEID
MaxEID == 2
\* events in one backlog batch
MaxBatch == 2
\* InsertMessage calls explored by the storage specification
MaxInserts == 3
\* the largest max_retry_attempts the connection specification configures
MaxBudget == 2

(* Program constants *)

\* maxCacheSize, NewIRCCloudClient (client.go:144).  The program's value is
\* 10000; the model keeps the eviction arithmetic (size / 5) and scales the
\* size down to the smallest one for which an eviction removes an entry.
MaxCacheSize == 5
\* the divisor of "toRemove := c.maxCacheSize / 5" (client.go:190)
EvictDivisor == 5

MicrosPerSecond == 1000000
NanosPerMicro   == 1000
SecondsPerDay   == 24 * 60 * 60

----------------------------------------------------------------------------
(* Values *)

NoConn   == "nil"
OpenConn == "open"
NoAuth   == [cached |-> FALSE]

StateDisconnected == "disconnected"
StateConnecting   == "connecting"
StateConnected    == "connected"
StateReconnecting == "reconnecting"
StateError        == "error"
ConnectionState == {StateDisconnected, StateConnecting, StateConnected,
                    StateReconnecting, StateError}

Range(s) == {s[i] : i \in 1..Len(s)}

\* bytes used in message bodies
ColorByte     == 3      \* \x03
BoldByte      == 2      \* \x02
UnderlineByte == 31     \* \x1F
ItalicByte    == 29     \* \x1D
StrikeByte    == 30     \* \x1E
ResetByte     == 15     \* \x0F
CommaByte     == 44
SpaceByte     == 32
TabByte       == 9
Digits        == 48..57
FormatBytes   == {BoldByte, UnderlineByte, ItalicByte, StrikeByte, ResetByte}

----------------------------------------------------------------------------
(* utils.RemoveIRCColors / utils.CleanIRCMessage *)

IsDigitAt(s, i) == i <= Len(s) /\ s[i] \in Digits

\* number of digits the greedy \d{1,2} takes at position i (0: no match)
DigitRun(s, i) == IF IsDigitAt(s, i) THEN (IF IsDigitAt(s, i + 1) THEN 2 ELSE 1) ELSE 0

\* ircColorRegex without the alternative for a background colour
ircColorRegex_NoBackground(s, i) ==
    IF s[i] = ColorByte THEN 1 + DigitRun(s, i + 1)
    ELSE IF s[i] \in FormatBytes THEN 1 ELSE 0

\* length of the match of ircColorRegex that starts at position i (0: none)
ircColorRegex(s, i) ==
    IF s[i] = ColorByte
    THEN LET fg == DigitRun(s, i + 1)
             hasBg == /\ fg > 0
                      /\ i + fg + 1 <= Len(s)
                      /\ s[i + fg + 1] = CommaByte
                      /\ DigitRun(s, i + fg + 2) > 0
         IN  1 + fg + (IF hasBg THEN 1 + DigitRun(s, i + fg + 2) ELSE 0)
    ELSE IF s[i] \in FormatBytes THEN 1 ELSE 0

RECURSIVE RemoveFrom(_, _)
RemoveFrom(s, i) ==
    IF i > Len(s) THEN <<>>
    ELSE LET n == ircColorRegex(s, i)
         IN  IF n > 0 THEN RemoveFrom(s, i + n)
             ELSE <<s[i]>> \o RemoveFrom(s, i + 1)

RemoveIRCColors(message) == RemoveFrom(message, 1)

IsSpace(b) == b \in {SpaceByte, TabByte, 10, 11, 12, 13}

RECURSIVE TrimLeft(_)
TrimLeft(s) == IF s # <<>> /\ IsSpace(Head(s)) THEN TrimLeft(Tail(s)) ELSE s

RECURSIVE TrimRight(_)
TrimRight(s) ==
    IF s # <<>> /\ IsSpace(s[Len(s)]) THEN TrimRight(SubSeq(s, 1, Len(s) - 1)) ELSE s

\* TrimSpace cutting one white-space byte at most from each end
TrimSpace_OneEach(s) ==
    LET l == IF s # <<>> /\ IsSpace(Head(s)) THEN Tail(s) ELSE s
    IN  IF l # <<>> /\ IsSpace(l[Len(l)]) THEN SubSeq(l, 1, Len(l) - 1) ELSE l

\* strings.TrimSpace
TrimSpace(s) == TrimRight(TrimLeft(s))

CleanIRCMessage(message) == TrimSpace(RemoveIRCColors(message))

----------------------------------------------------------------------------
(* storage: the table messages and InsertMessage *)

\* the columns the INSERT statement names; id is the row's position
Row(m) == [channel   |-> m.Channel,
           timestamp |-> m.Timestamp,
           sender    |-> m.Sender,
           message   |-> m.Message,
           date      |-> m.Date]

\* INSERT INTO messages (...) VALUES (...): the table has no column for the
\* event id and no uniqueness constraint, so every successful call adds a row
InsertMessage(rows, m) == Append(rows, Row(m))

----------------------------------------------------------------------------
(* Stream processor *)

\* UnixMicro dropping the part of serverTime below a second
UnixMicro_WholeSeconds(t) == [sec |-> t \div MicrosPerSecond, nsec |-> 0]

\* time.Unix(seconds, nanoseconds) for a serverTime in microseconds
UnixMicro(t) == [sec  |-> t \div MicrosPerSecond,
                 nsec |-> (t % MicrosPerSecond) * NanosPerMicro]

\* time.Now()
Now == [sec |-> now, nsec |-> 0]

\* msgTime: serverTime > 0 is converted, anything else is the receipt time
msgTime(ircMsg) == IF ircMsg.time > 0 THEN UnixMicro(ircMsg.time) ELSE Now

\* msgTime.Format("2006-01-02"), as the number of the day since the epoch
FormatDate(t) == t.sec \div SecondsPerDay

\* a Go map lookup: a missing key reads as false
Lookup(m, k) == IF k \in DOMAIN m THEN m[k] ELSE FALSE

\* Run's prologue: the sets are built from the lists
MakeSet(list) == [ch \in Range(list) |-> TRUE]

\* AcceptLive with the allow-list overriding the deny-list
AcceptLive_AllowWins(ircMsg) ==
    /\ ircMsg.type = "buffer_msg"
    /\ \/ (Len(channels) = 0 /\ ~Lookup(ignoredChannelSet, ircMsg.chan))
       \/ Lookup(channelSet, ircMsg.chan)

\* the filter condition of processMessage
AcceptLive(ircMsg) ==
    /\ ircMsg.type = "buffer_msg"
    /\ ~Lookup(ignoredChannelSet, ircMsg.chan)
    /\ (Len(channels) = 0 \/ Lookup(channelSet, ircMsg.chan))

\* BacklogSkip without the test of the deny-list
BacklogSkip_NoDeny(ircMsg) ==
    \/ ircMsg.type # "buffer_msg"
    \/ (Len(channels) > 0 /\ ~Lookup(channelSet, ircMsg.chan))

\* the skip condition of processBacklog
BacklogSkip(ircMsg) ==
    \/ ircMsg.type # "buffer_msg"
    \/ Lookup(ignoredChannelSet, ircMsg.chan)
    \/ (Len(channels) > 0 /\ ~Lookup(channelSet, ircMsg.chan))

\* isEIDSeen without its cleanup
isEIDSeen_NoCleanup(cache, eid) ==
    IF eid \in cache
    THEN {[seen |-> TRUE, cache |-> cache]}
    ELSE {[seen |-> FALSE, cache |-> cache \cup {eid}]}

\* isEIDSeen: the possible results [seen, cache]; the eviction removes
\* toRemove keys in map iteration order, which is any order
isEIDSeen(cache, eid) ==
    IF eid \in cache
    THEN {[seen |-> TRUE, cache |-> cache]}
    ELSE LET added    == cache \cup {eid}
             toRemove == maxCacheSize \div EvictDivisor
         IN  IF Cardinality(added) > maxCacheSize
             THEN {[seen |-> FALSE, cache |-> added \ gone] :
                      gone \in {g \in SUBSET added : Cardinality(g) = toRemove}}
             ELSE {[seen |-> FALSE, cache |-> added]}

\* the storage.Message processMessage builds
LiveMessage(ircMsg) ==
    [Channel   |-> ircMsg.chan,
     Timestamp |-> msgTime(ircMsg),
     Sender    |-> ircMsg.from,
     Message   |-> CleanIRCMessage(ircMsg.msg),
     Date      |-> FormatDate(msgTime(ircMsg)),
     EID       |-> ircMsg.eid]

\* the storage.Message processBacklog builds
BacklogMessage(ircMsg) ==
    [Channel      |-> ircMsg.chan,
     Timestamp    |-> msgTime(ircMsg),
     Sender       |-> ircMsg.from,
     Message      |-> CleanIRCMessage(ircMsg.msg),
     Date         |-> FormatDate(msgTime(ircMsg)),
     IRCCloudTime |-> ircMsg.time]

\* BacklogLoop giving up the batch at the first failed insert
RECURSIVE BacklogLoop_AbortsOnError(_, _, _, _)
BacklogLoop_AbortsOnError(msgs, i, failing, acc) ==
    IF i > Len(msgs) THEN acc
    ELSE LET ircMsg == msgs[i] IN
         IF BacklogSkip(ircMsg)
         THEN BacklogLoop_AbortsOnError(msgs, i + 1, failing,
                [acc EXCEPT !.trace = Append(@, [event |-> ircMsg, handed |-> FALSE])])
         ELSE IF i \in failing
         THEN [acc EXCEPT !.trace = Append(@, [event |-> ircMsg, handed |-> TRUE])]
         ELSE BacklogLoop_AbortsOnError(msgs, i + 1, failing,
                [rows  |-> InsertMessage(acc.rows, BacklogMessage(ircMsg)),
                 log   |-> Append(acc.log, [eid |-> ircMsg.eid, via |-> "backlog", time |-> ircMsg.time]),
                 trace |-> Append(acc.trace, [event |-> ircMsg, handed |-> TRUE])])

\* the loop of processBacklog over the decoded batch; failing is the set of
\* positions whose InsertMessage call returns an error
RECURSIVE BacklogLoop(_, _, _, _)
BacklogLoop(msgs, i, failing, acc) ==
    IF i > Len(msgs) THEN acc
    ELSE LET ircMsg == msgs[i] IN
         IF BacklogSkip(ircMsg)
         THEN BacklogLoop(msgs, i + 1, failing,
                [acc EXCEPT !.trace = Append(@, [event |-> ircMsg, handed |-> FALSE])])
         ELSE IF i \in failing
         THEN BacklogLoop(msgs, i + 1, failing,
                [acc EXCEPT !.trace = Append(@, [event |-> ircMsg, handed |-> TRUE])])
         ELSE BacklogLoop(msgs, i + 1, failing,
                [rows  |-> InsertMessage(acc.rows, BacklogMessage(ircMsg)),
                 log   |-> Append(acc.log, [eid |-> ircMsg.eid, via |-> "backlog", time |-> ircMsg.time]),
                 trace |-> Append(acc.trace, [event |-> ircMsg, handed |-> TRUE])])

\* processBacklog(url): resp is the server's answer to the GET
processBacklog(resp, failing) ==
    IF resp.kind # "ok"
    THEN \* request error, non-200 status, gzip error or decode error
         /\ backlogTrace' = <<>>
         /\ UNCHANGED <<db, insertLog>>
    ELSE LET r == BacklogLoop(resp.events, 1, failing,
                              [rows |-> db, log |-> insertLog, trace |-> <<>>])
         IN  /\ db' = r.rows
             /\ insertLog' = r.log
             /\ backlogTrace' = r.trace

\* the answer to the backlog GET where no request is made
NoResp == [kind |-> "ok", events |-> <<>>]

\* what a processMessage call did: the frame, the branch taken, the error
\* returned ("none" for nil), and for an oob_include frame the error
\* processBacklog returned, the server's answer and the failing inserts
Outcome(frame, branch, err, backlogErr, resp, failing) ==
    [frame |-> frame, branch |-> branch, err |-> err, backlogErr |-> backlogErr,
     resp |-> resp, failing |-> failing]

\* the error processBacklog returns
BacklogError(resp) == IF resp.kind # "ok" THEN resp.kind ELSE "none"

\* OobReturn handing the error of processBacklog on to the caller
OobReturn_Propagates(backlogErr) == backlogErr

\* what processMessage returns for an oob_include frame: the error of
\* processBacklog is logged and nil is returned
OobReturn(backlogErr) == "none"

\* the update of lastSeenEID taking every stored event id
AdvanceLastSeen_Always(eid) == eid

\* the update of lastSeenEID after a stored live message
AdvanceLastSeen(eid) == IF eid > lastSeenEID THEN eid ELSE lastSeenEID

\* processMessage consulting the de-duplication cache before the filter
processMessage_CacheFirst(message, resp, failing) ==
    /\ nframes' = nframes + 1
    /\ IF ~message.valid
       THEN /\ outcome' = Outcome(message, "unmarshal_error", "unmarshal error", "none", NoResp, {})
            /\ UNCHANGED <<lastSeenEID, eidCache, db, insertLog, backlogTrace>>
       ELSE IF message.type = "oob_include"
       THEN /\ processBacklog(resp, failing)
            /\ outcome' = Outcome(message, "backlog", OobReturn(BacklogError(resp)),
                                   BacklogError(resp), resp,
                                   failing \cap (1..Len(resp.events)))
            /\ UNCHANGED <<lastSeenEID, eidCache>>
       ELSE IF message.type = "buffer_msg"
       THEN \E seen \in isEIDSeen(eidCache, message.eid) :
            /\ eidCache' = seen.cache
            /\ UNCHANGED backlogTrace
            /\ IF seen.seen
               THEN /\ outcome' = Outcome(message, "duplicate", "none", "none", NoResp, {})
                    /\ UNCHANGED <<lastSeenEID, db, insertLog>>
               ELSE IF ~AcceptLive(message)
               THEN /\ outcome' = Outcome(message, "filtered", "none", "none", NoResp, {})
                    /\ UNCHANGED <<lastSeenEID, db, insertLog>>
               ELSE IF 1 \in failing
               THEN /\ outcome' = Outcome(message, "insert_error", "error inserting message into DB", "none", NoResp, {})
                    /\ UNCHANGED <<lastSeenEID, db, insertLog>>
               ELSE /\ db' = InsertMessage(db, LiveMessage(message))
                    /\ insertLog' = Append(insertLog, [eid |-> message.eid, via |-> "live", time |-> message.time])
                    /\ lastSeenEID' = AdvanceLastSeen(message.eid)
                    /\ outcome' = Outcome(message, "stored", "none", "none", NoResp, {})
       ELSE /\ outcome' = Outcome(message, "filtered", "none", "none", NoResp, {})
            /\ UNCHANGED <<lastSeenEID, eidCache, db, insertLog, backlogTrace>>

\* processMessage(message)
processMessage(message, resp, failing) ==
    /\ nframes' = nframes + 1
    /\ IF ~message.valid
       THEN \* json.Unmarshal fails
            /\ outcome' = Outcome(message, "unmarshal_error", "unmarshal error", "none", NoResp, {})
            /\ UNCHANGED <<lastSeenEID, eidCache, db, insertLog, backlogTrace>>
       ELSE IF message.type = "oob_include"
       THEN /\ processBacklog(resp, failing)
            /\ outcome' = Outcome(message, "backlog", OobReturn(BacklogError(resp)),
                                   BacklogError(resp), resp,
                                   failing \cap (1..Len(resp.events)))
            /\ UNCHANGED <<lastSeenEID, eidCache>>
       ELSE IF AcceptLive(message)
       THEN \E seen \in isEIDSeen(eidCache, message.eid) :
            /\ eidCache' = seen.cache
            /\ UNCHANGED backlogTrace
            /\ IF seen.seen
               THEN /\ outcome' = Outcome(message, "duplicate", "none", "none", NoResp, {})
                    /\ UNCHANGED <<lastSeenEID, db, insertLog>>
               ELSE IF 1 \in failing
               THEN /\ outcome' = Outcome(message, "insert_error", "error inserting message into DB", "none", NoResp, {})
                    /\ UNCHANGED <<lastSeenEID, db, insertLog>>
               ELSE /\ db' = InsertMessage(db, LiveMessage(message))
                    /\ insertLog' = Append(insertLog, [eid |-> message.eid, via |-> "live", time |-> message.time])
                    /\ lastSeenEID' = AdvanceLastSeen(message.eid)
                    /\ outcome' = Outcome(message, "stored", "none", "none", NoResp, {})
       ELSE /\ outcome' = Outcome(message, "filtered", "none", "none", NoResp, {})
            /\ UNCHANGED <<lastSeenEID, eidCache, db, insertLog, backlogTrace>>

----------------------------------------------------------------------------
(* Inputs *)

Channels == {"#a", "#b"}
\* the allow- and deny-lists a configuration may give
ChannelLists == {<<>>, <<"#a">>, <<"#b">>, <<"#a", "#b">>}

\* "\x0307hi " and "yo"
ColoredBody == <<ColorByte, 48, 55, 104, 105, SpaceByte>>
PlainBody   == <<121, 111>>
Bodies == {ColoredBody, PlainBody}

\* a serverTime in microseconds (1.5 s after the epoch)
SomeServerTime == 1500000
ServerTimes == {0, SomeServerTime}

Frame(type, chan, eid, msg, time) ==
    [valid |-> TRUE, type |-> type, chan |-> chan, from |-> "nick",
     msg |-> msg, time |-> time, eid |-> eid]

\* a frame that is not JSON
InvalidFrame == [valid |-> FALSE, type |-> "", chan |-> "", from |-> "",
                 msg |-> <<>>, time |-> 0, eid |-> 0]

\* an oob_include frame; its url is answered by the response given to processMessage
OobFrame == Frame("oob_include", "", 0, <<>>, 0)

\* frames of the live stream that are neither oob_include nor malformed:
\* messages as the live stream sends them (serverTime 0), replayed messages
\* (serverTime set) and a control frame
LiveFrames ==
    {Frame("buffer_msg", c, e, ColoredBody, 0) : c \in Channels, e \in 1..MaxEID}
    \cup {Frame("buffer_msg", "#a", e, PlainBody, SomeServerTime) : e \in 1..MaxEID}
    \cup {Frame("heartbeat", "#a", 0, <<>>, 0)}

\* events of a backlog batch
BacklogEvents ==
    {Frame("buffer_msg", "#a", 1, ColoredBody, SomeServerTime),
     Frame("buffer_msg", "#b", MaxEID, PlainBody, SomeServerTime),
     Frame("makeserver", "#a", 0, <<>>, 0)}

RECURSIVE SeqsUpTo(_, _)
SeqsUpTo(S, n) ==
    IF n = 0 THEN {<<>>}
    ELSE LET shorter == SeqsUpTo(S, n - 1)
         IN  shorter \cup {Append(q, x) : q \in {r \in shorter : Len(r) = n - 1}, x \in S}

\* the answers to the backlog GET; a batch lists an event once
BacklogResponses ==
    {[kind |-> k, events |-> <<>>] : k \in {"request_error", "status", "gzip", "decode"}}
    \cup {[kind |-> "ok", events |-> b] :
             b \in {q \in SeqsUpTo(BacklogEvents, MaxBatch) :
                      \A i, j \in 1..Len(q) : i # j => q[i] # q[j]}}

\* storage.Message values given to InsertMessage directly
DirectMessages ==
    {[Channel |-> c, Timestamp |-> UnixMicro(SomeServerTime), Sender |-> "nick",
      Message |-> b, Date |-> 0, EID |-> e] :
        c \in Channels, b \in {CleanIRCMessage(x) : x \in Bodies}, e \in 1..MaxEID}

NoFrame == Frame("", "", 0, <<>>, 0)

----------------------------------------------------------------------------
(* Configuration *)

\* setConnectionDefaults: the value a zero field gets
DefaultMaxRetryAttempts == 10

\* the connection section after config.LoadConfig, for a configured
\* max_retry_attempts and the other fields left to their defaults
LoadedConfig(maxRetry) ==
    [HeartbeatInterval |-> "30s",
     MaxRetryAttempts  |-> IF maxRetry = 0 THEN DefaultMaxRetryAttempts ELSE maxRetry,
     InitialRetryDelay |-> "1s",
     MaxRetryDelay     |-> "5m",
     BackoffMultiplier |-> 2,
     ConnectionTimeout |-> "45s",
     PingInterval      |-> "60s"]

\* what connectWithRetry returns: nil, or an error and what it reports
Returned(kind, n, cause) == [kind |-> kind, attempts |-> n, cause |-> cause]
NoResult == Returned("none", 0, "none")

\* the freshness window of attemptConnection, 30 * time.Minute, in seconds
AuthFreshness == 1800
\* the zero value of time.Time; it lies more than the freshness window
\* before every wall-clock time
ZeroTime == 0
\* the wall clock advances in steps of TickSeconds, MaxTicks times
TickSeconds == 900
MaxTicks == 3
BootTime == ZeroTime + SecondsPerDay + AuthFreshness + TickSeconds

----------------------------------------------------------------------------
(* authenticate, parseAPIResponse, buildWebSocketURL *)

\* An error value: an *AuthError with its three fields, or an error made by
\* fmt.Errorf, of which text is the format and arg the value formatted in
NoError == [kind |-> "nil", Type |-> "", Message |-> "", Status |-> 0,
            text |-> "", arg |-> ""]
AuthError(type, message, status) ==
    [kind |-> "AuthError", Type |-> type, Message |-> message, Status |-> status,
     text |-> "", arg |-> ""]
Errorf(text, arg) ==
    [kind |-> "errorString", Type |-> "", Message |-> "", Status |-> 0,
     text |-> text, arg |-> arg]

\* http.StatusOK
StatusOK == 200

\* resp.Status, the status line text of a response
StatusText(code) ==
    CASE code = 200 -> "200 OK"
      [] code = 401 -> "401 Unauthorized"
      [] OTHER      -> "500 Internal Server Error"

\* A response body: json says whether it is a JSON object; success, host
\* and path are its members success, websocket_host and websocket_path
\* (false and empty when absent); message is its member message, and
\* messageIsString is false when that member is not a JSON string; sess and
\* api are its members session and api_host
Body(json, success, message, messageIsString, host, path, sess, api) ==
    [json |-> json, success |-> success, message |-> message,
     messageIsString |-> messageIsString, host |-> host, path |-> path,
     session |-> sess, api_host |-> api]

\* the members session and api_host of a successful login
SomeSession == "2.73dcfacebec8df39d9affb7d4a58e556"
SomeAPIHost == "https://api-2.irccloud.com"

\* the answer to a POST: answered is false when client.Do returned an error
Response(answered, status, body) == [sent |-> answered, status |-> status, body |-> body]

\* the *AuthResponse decoded from a body
AuthOf(body) ==
    [cached |-> TRUE, WebSocketHost |-> body.host, WebSocketPath |-> body.path,
     Session |-> body.session, APIHost |-> body.api_host]

\* the fields Session and APIHost of a cached *AuthResponse, as
\* attemptConnection copies them into the client
SessionOf(auth) == IF auth.cached THEN auth.Session ELSE ""
APIHostOf(auth) == IF auth.cached THEN auth.APIHost ELSE ""

\* parseAPIResponse
parseAPIResponse(body, statusCode) ==
    IF ~body.json
    THEN [authResp |-> NoAuth, err |-> Errorf("could not parse response: %w", "")]
    ELSE IF ~body.success
    THEN IF ~body.messageIsString
         THEN [authResp |-> NoAuth,
               err |-> AuthError("api_error", "Authentication failed", statusCode)]
         ELSE [authResp |-> NoAuth,
               err |-> AuthError("api_error", body.message, statusCode)]
    ELSE [authResp |-> AuthOf(body), err |-> NoError]

\* authenticate: the token request, then the login request
authenticate(tok, login) ==
    IF ~tok.sent
    THEN [authResp |-> NoAuth, err |-> Errorf("could not perform token request: %w", "")]
    ELSE IF tok.status # StatusOK
    THEN [authResp |-> NoAuth,
          err |-> Errorf("token request failed with status: %s", StatusText(tok.status))]
    ELSE IF ~tok.body.json
    THEN [authResp |-> NoAuth, err |-> Errorf("could not parse token response: %w", "")]
    ELSE IF ~tok.body.success
    THEN [authResp |-> NoAuth, err |-> Errorf("token request unsuccessful", "")]
    ELSE IF ~login.sent
    THEN [authResp |-> NoAuth, err |-> Errorf("could not perform login request: %w", "")]
    ELSE IF login.status # StatusOK
    THEN [authResp |-> NoAuth,
          err |-> Errorf("login failed with status: %s", StatusText(login.status))]
    ELSE parseAPIResponse(login.body, login.status)

\* Texts of URLs are sequences of pieces: a piece is a run of characters
\* without a reserved character, or one of "/", "?", "#", "&", or "%zz", a
\* percent sign that no two hexadecimal digits follow
FallbackURL == <<"wss://", "www.irccloud.com", "/", "?", "since_id=0", "&", "stream_id=0">>

\* the pieces of s before the first piece p (all of s when p is absent)
Before(s, p) ==
    IF p \in Range(s)
    THEN SubSeq(s, 1, (CHOOSE i \in 1..Len(s) : s[i] = p /\ \A j \in 1..(i - 1) : s[j] # p) - 1)
    ELSE s

\* the pieces of s after the first piece p (none when p is absent)
After(s, p) == SubSeq(s, Len(Before(s, p)) + 2, Len(s))

\* url.Parse of "wss://" + rest: the fragment is cut at the first "#", the
\* query at the first "?", the host ends at the first "/"; an invalid
\* percent escape in the host or the path is an error
ParseURL(rest) ==
    LET frag  == After(rest, "#")
        nofr  == Before(rest, "#")
        query == After(nofr, "?")
        hier  == Before(nofr, "?")
    IN  [ok       |-> "%zz" \notin Range(hier),
         host     |-> Before(hier, "/"),
         path     |-> SubSeq(hier, Len(Before(hier, "/")) + 1, Len(hier)),
         query    |-> query,
         hasFrag  |-> "#" \in Range(rest),
         fragment |-> frag]

\* u.Query(), q.Set("since_id", "0"), q.Set("stream_id", "0"), q.Encode():
\* the parameters sorted by key.  The keys of the model's other parameters
\* sort after "stream_id"
EncodeQuery(query) ==
    <<"since_id=0", "&", "stream_id=0">>
    \o (IF query = <<>> THEN <<>> ELSE <<"&">> \o query)

\* buildWebSocketURL without its fallbacks
buildWebSocketURL_NoFallback(auth) ==
    LET u == ParseURL(auth.WebSocketHost \o auth.WebSocketPath)
    IN  <<"wss://">> \o u.host \o u.path \o <<"?">> \o EncodeQuery(u.query)
        \o (IF u.hasFrag THEN <<"#">> \o u.fragment ELSE <<>>)

\* buildWebSocketURL
buildWebSocketURL(auth) ==
    IF auth.WebSocketHost # <<>> /\ auth.WebSocketPath # <<>>
    THEN LET u == ParseURL(auth.WebSocketHost \o auth.WebSocketPath)
         IN  IF ~u.ok THEN FallbackURL
             ELSE <<"wss://">> \o u.host \o u.path \o <<"?">> \o EncodeQuery(u.query)
                  \o (IF u.hasFrag THEN <<"#">> \o u.fragment ELSE <<>>)
    ELSE FallbackURL

\* no request was made
NoResponse == Response(FALSE, 0, Body(FALSE, FALSE, "", TRUE, <<>>, <<>>, "", ""))

\* nothing observed of attemptConnection's authentication yet
NoAuthLog ==
    [did |-> "none", cached |-> FALSE, age |-> 0, token |-> NoResponse,
     login |-> NoResponse]

\* the endpoints as the other specifications need them: the token request
\* succeeds, and the login succeeds or is refused
PlainLogin == Response(TRUE, StatusOK,
                       Body(TRUE, TRUE, "", TRUE, <<"api-2.irccloud.com">>, <<"/", "websocket", "/", "2">>, SomeSession, SomeAPIHost))
RefusedLogin == Response(TRUE, 401, Body(TRUE, FALSE, "Invalid credentials", TRUE, <<>>, <<>>, "", ""))
PlainToken == Response(TRUE, StatusOK, Body(TRUE, TRUE, "", TRUE, <<>>, <<>>, SomeSession, SomeAPIHost))
PlainServer == [tokens |-> {PlainToken}, logins |-> {PlainLogin, RefusedLogin}]

\* no ticker created yet, and no dial made yet
NoTickers == [heartbeat |-> 0, ping |-> 0]
NoDial == [url |-> <<>>, HandshakeTimeout |-> 0]

----------------------------------------------------------------------------
(* Initial states *)

\* NewIRCCloudClient, SetConnectionConfig(cfg)
NewIRCCloudClient(cfg) ==
    /\ conn = NoConn
    /\ lastSeenEID = 0
    /\ channels = <<>>
    /\ ignoredChannels = <<>>
    /\ channelSet = <<>>
    /\ ignoredChannelSet = <<>>
    /\ connConfig = cfg
    /\ state = StateDisconnected
    /\ retryCount = 0
    /\ lastConnectTime = ZeroTime
    /\ cancelled = FALSE
    /\ authResp = NoAuth
    /\ session = SessionOf(authResp)
    /\ apiHost = APIHostOf(authResp)
    /\ eidCache = {}
    /\ maxCacheSize = MaxCacheSize
    /\ held = 0
    /\ openSockets = {}

InitRest ==
    /\ db = <<>>
    /\ now = BootTime
    /\ pc = "start"
    /\ mainPc = "connect"
    /\ caller = "none"
    /\ done = "empty"
    /\ result = NoResult
    /\ delay = 0
    /\ reader = "none"
    /\ signals = {}
    /\ sent = [method |-> "none", last_seen_eid |-> 0]
    /\ inbox = <<>>
    /\ orphans = 0
    /\ loopErr = "none"
    /\ insertLog = <<>>
    /\ outcome = Outcome(NoFrame, "none", "none", "none", NoResp, {})
    /\ backlogTrace = <<>>
    /\ nframes = 0
    /\ attempts = 0
    /\ sleeps = 0
    /\ authLog = NoAuthLog
    /\ authTime = ZeroTime
    /\ lastErr = "none"
    /\ server = PlainServer
    /\ authErr = NoError
    /\ dial = NoDial
    /\ timers = NoTickers

\* Run's prologue: the filter lists are stored and the two sets are built
\* from them
RunPrologue(chs, igs) ==
    [channels |-> chs, ignoredChannels |-> igs,
     channelSet |-> MakeSet(chs), ignoredChannelSet |-> MakeSet(igs)]

\* the client as Run's prologue leaves it
AfterRunPrologue(chs, igs) ==
    /\ channels = RunPrologue(chs, igs).channels
    /\ ignoredChannels = RunPrologue(chs, igs).ignoredChannels
    /\ channelSet = RunPrologue(chs, igs).channelSet
    /\ ignoredChannelSet = RunPrologue(chs, igs).ignoredChannelSet

----------------------------------------------------------------------------
(* The storage specification: InsertMessage called directly *)

InitStore == NewIRCCloudClient(LoadedConfig(0)) /\ InitRest

StoreInsert ==
    /\ Len(db) < MaxInserts
    /\ \E m \in DirectMessages :
         /\ db' = InsertMessage(db, m)
         /\ insertLog' = Append(insertLog, [eid |-> m.EID, via |-> "direct", time |-> SomeServerTime])
    /\ UNCHANGED <<lastSeenEID, eidCache, outcome, backlogTrace, nframes>>
    /\ UNCHANGED <<filterVars, connVars, connConfig, maxCacheSize, loopVars, attemptVars, now, delay>>

NextStore == StoreInsert

SpecStore == InitStore /\ [][NextStore]_vars

----------------------------------------------------------------------------
(* The stream-processor specification: frames handed to processMessage *)

\* the filter lists the stream-processor specification starts from
IngestFilters == {<<(<<>>), (<<>>)>>, <<(<<"#a">>), (<<"#b">>)>>}

\* a connected client whose Run has stored one of the pairs of filter lists
\* and whose maxCacheSize is one of sizes
SizedProcessor(filters, sizes) ==
    /\ \E f \in filters : AfterRunPrologue(f[1], f[2])
    /\ maxCacheSize \in sizes
    /\ conn = OpenConn
    /\ lastSeenEID = 0
    /\ connConfig = LoadedConfig(0)
    /\ state = StateConnected
    /\ retryCount = 0
    /\ lastConnectTime = BootTime
    /\ cancelled = FALSE
    /\ authResp = AuthOf(PlainLogin.body)
    /\ session = SessionOf(authResp)
    /\ apiHost = APIHostOf(authResp)
    /\ eidCache = {}
    /\ held = 1
    /\ openSockets = {1}
    /\ InitRest

InitProcessor(filters) == SizedProcessor(filters, {MaxCacheSize})

IngestFrame(message, resp, failing) ==
    /\ nframes < MaxFrames
    /\ processMessage(message, resp, failing)
    /\ UNCHANGED <<filterVars, connVars, connConfig, maxCacheSize, loopVars, attemptVars, now, delay>>

ReadLive == \E f \in LiveFrames, failing \in {{}, {1}} :
                IngestFrame(f, NoResp, failing)

ReadOob == \E resp \in BacklogResponses, failing \in {{}, {1}} :
                IngestFrame(OobFrame, resp, failing)

ReadInvalid == IngestFrame(InvalidFrame, NoResp, {})

NextIngest == ReadLive \/ ReadOob \/ ReadInvalid

InitIngest == InitProcessor(IngestFilters)

SpecIngest == InitIngest /\ [][NextIngest]_vars

----------------------------------------------------------------------------
(* The admission-filter specification: every pair of filter lists, and the
   decision processMessage and processBacklog take on one frame *)

InitFilter == InitProcessor(ChannelLists \X ChannelLists)

FilterFrame(message, resp) ==
    /\ nframes < MaxFilterFrames
    /\ processMessage(message, resp, {})
    /\ UNCHANGED <<filterVars, connVars, connConfig, maxCacheSize, loopVars, attemptVars, now, delay>>

FilterLive == \E f \in LiveFrames : FilterFrame(f, NoResp)

FilterOob == \E resp \in BacklogResponses : FilterFrame(OobFrame, resp)

NextFilter == FilterLive \/ FilterOob

SpecFilter == InitFilter /\ [][NextFilter]_vars

----------------------------------------------------------------------------
(* The de-duplication specification: more distinct event ids than the cache
   holds, on a client that accepts every channel *)

DedupFrames == {Frame("buffer_msg", "#a", e, PlainBody, SomeServerTime) :
                   e \in 1..(MaxCacheSize + 1)}

InitDedup == InitProcessor({<<(<<>>), (<<>>)>>})

DedupLive ==
    /\ nframes < MaxCacheSize + 2
    /\ \E f \in DedupFrames : processMessage(f, NoResp, {})
    /\ UNCHANGED <<filterVars, connVars, connConfig, maxCacheSize, loopVars, attemptVars, now, delay>>

NextDedup == DedupLive

SpecDedup == InitDedup /\ [][NextDedup]_vars

----------------------------------------------------------------------------
(* The cache-size specification: clients of every maxCacheSize up to the
   model's, and more distinct event ids than the largest cache holds *)

CacheSizes == 1..MaxCacheSize

InitCache == SizedProcessor({<<(<<>>), (<<>>)>>}, CacheSizes)

\* a live frame arrives whose event id is the next new one or an earlier one
CacheLive ==
    /\ nframes < MaxCacheSize + 2
    /\ \E f \in DedupFrames, failing \in {{}, {1}} :
         /\ f.eid <= Cardinality(eidCache) + 1
         /\ processMessage(f, NoResp, failing)
    /\ UNCHANGED <<filterVars, connVars, connConfig, maxCacheSize, loopVars, attemptVars, now, delay>>

NextCache == CacheLive

SpecCache == InitCache /\ [][NextCache]_vars

----------------------------------------------------------------------------
(* The cleaner specification: a message text goes through processMessage,
   and the text that was stored comes back in a second frame *)

\* longest text over the bytes that make up colour codes
MaxTextLen == 6
\* longest text over all bytes, the five format bytes included
MaxMarkedLen == 3

\* 0x03, the digit 1, the comma, the space and the letter a
CoreBytes == {ColorByte, 49, CommaByte, SpaceByte, 97}

CleanInputs ==
    SeqsUpTo(CoreBytes, MaxTextLen) \cup SeqsUpTo(CoreBytes \cup FormatBytes, MaxMarkedLen)

InitClean == InitProcessor({<<(<<>>), (<<>>)>>})

\* a live message with the text body arrives
CleanFirst ==
    /\ nframes = 0
    /\ \E body \in CleanInputs :
         processMessage(Frame("buffer_msg", "#a", 1, body, 0), NoResp, {})
    /\ UNCHANGED <<filterVars, connVars, connConfig, maxCacheSize, loopVars, attemptVars, now, delay>>

\* a live message arrives whose text is the text stored for the first one
CleanAgain ==
    /\ nframes = 1 /\ Len(db) = 1
    /\ processMessage(Frame("buffer_msg", "#a", 2, db[1].message, 0), NoResp, {})
    /\ UNCHANGED <<filterVars, connVars, connConfig, maxCacheSize, loopVars, attemptVars, now, delay>>

NextClean == CleanFirst \/ CleanAgain

SpecClean == InitClean /\ [][NextClean]_vars

----------------------------------------------------------------------------
(* calculateBackoffDelay *)

\* time.ParseDuration on the duration strings the model configures
ParseDuration(str) ==
    CASE str = "1s"  -> [ok |-> TRUE, seconds |-> 1]
      [] str = "2s"  -> [ok |-> TRUE, seconds |-> 2]
      [] str = "30s" -> [ok |-> TRUE, seconds |-> 30]
      [] str = "45s" -> [ok |-> TRUE, seconds |-> 45]
      [] str = "60s" -> [ok |-> TRUE, seconds |-> 60]
      [] str = "5m"  -> [ok |-> TRUE, seconds |-> 300]
      [] OTHER       -> [ok |-> FALSE, seconds |-> 0]

\* the fallbacks of calculateBackoffDelay: time.Second and 5 * time.Minute
DefaultInitialDelay == 1
DefaultMaxDelay == 300

\* The float64 product initialDelay * multiplier^retryCount is a number of
\* nanoseconds that may exceed the int64 range of time.Duration.  It is held
\* in whole seconds as hi * LimbBase + lo, and is not grown further once hi
\* passes LimbCap, far above the int64 range.
LimbBase == 100000
LimbCap  == 1000000
\* math.MaxInt64 nanoseconds is 9223372036.854775807 seconds
MaxInt64SecondsHi == 92233
MaxInt64SecondsLo == 72036

Times(p, m) ==
    IF p.hi > LimbCap THEN p
    ELSE [hi |-> p.hi * m + (p.lo * m) \div LimbBase, lo |-> (p.lo * m) % LimbBase]

\* float64(initialDelay) * math.Pow(multiplier, float64(retryCount))
RECURSIVE FloatProduct(_, _, _)
FloatProduct(initialDelay, multiplier, n) ==
    IF n = 0 THEN [hi |-> initialDelay \div LimbBase, lo |-> initialDelay % LimbBase]
    ELSE Times(FloatProduct(initialDelay, multiplier, n - 1), multiplier)

\* the product does not fit in an int64 count of nanoseconds
ExceedsInt64(p) ==
    \/ p.hi > MaxInt64SecondsHi
    \/ p.hi = MaxInt64SecondsHi /\ p.lo > MaxInt64SecondsLo

\* math.MinInt64 nanoseconds, the result of the conversion on amd64 when the
\* product exceeds the int64 range; all that is kept of it is that it is
\* below zero
MinDuration == 0 - 1

\* calculateBackoffDelay: the values the call may return.  The conversion
\* time.Duration(float64) of a value outside the int64 range is
\* implementation-dependent: math.MinInt64 on amd64, math.MaxInt64 where
\* the conversion saturates (arm64).
calculateBackoffDelay(cfg, n) ==
    LET initialDelay == IF ParseDuration(cfg.InitialRetryDelay).ok
                        THEN ParseDuration(cfg.InitialRetryDelay).seconds
                        ELSE DefaultInitialDelay
        maxDelay     == IF ParseDuration(cfg.MaxRetryDelay).ok
                        THEN ParseDuration(cfg.MaxRetryDelay).seconds
                        ELSE DefaultMaxDelay
        product      == FloatProduct(initialDelay, cfg.BackoffMultiplier, n)
    IN  IF ExceedsInt64(product)
        THEN {MinDuration, maxDelay}
        ELSE IF product.hi = 0 /\ product.lo < maxDelay
        THEN {product.lo}
        ELSE {maxDelay}

----------------------------------------------------------------------------
(* The tickers of runMessageLoop and the dialer of attemptConnection *)

\* the fallbacks of runMessageLoop and attemptConnection for a duration
\* that does not parse: 30, 60 and 45 seconds
DefaultHeartbeatInterval == 30
DefaultPingInterval == 60
DefaultConnectionTimeout == 45

\* runMessageLoop without its fallbacks: the zero Duration of a failed parse
Tickers_NoFallback(cfg) ==
    [heartbeat |-> ParseDuration(cfg.HeartbeatInterval).seconds,
     ping      |-> ParseDuration(cfg.PingInterval).seconds]

\* the tickers runMessageLoop creates
Tickers(cfg) ==
    [heartbeat |-> IF ParseDuration(cfg.HeartbeatInterval).ok
                   THEN ParseDuration(cfg.HeartbeatInterval).seconds
                   ELSE DefaultHeartbeatInterval,
     ping      |-> IF ParseDuration(cfg.PingInterval).ok
                   THEN ParseDuration(cfg.PingInterval).seconds
                   ELSE DefaultPingInterval]

\* the call dialer.Dial(wsURL, header) of attemptConnection
Dialer(wsURL, cfg) ==
    [url |-> wsURL,
     HandshakeTimeout |-> IF ParseDuration(cfg.ConnectionTimeout).ok
                          THEN ParseDuration(cfg.ConnectionTimeout).seconds
                          ELSE DefaultConnectionTimeout]

\* the socket a successful dial returns: one that is not open yet
NewSocket == CHOOSE i \in 1..(Cardinality(openSockets) + 1) : i \notin openSockets

----------------------------------------------------------------------------
(* Connection manager *)

setState(s) == state' = s

\* a frame written to the connection
Sent(method, eid) == [method |-> method, last_seen_eid |-> eid]
NoSent == Sent("none", 0)

\* a nil pointer dereference ends the process
Panic == pc' = "panic" /\ mainPc' = "exited"

\* the body of Close: setState(StateDisconnected), cancelFunc(), and the
\* close frame and release of the connection handle when there is one
Close ==
    /\ setState(StateDisconnected)
    /\ cancelled' = TRUE
    /\ IF conn # NoConn
       THEN /\ sent' = Sent("close", 0)
            /\ conn' = NoConn
            /\ openSockets' = openSockets \ {held}
            /\ held' = 0
       ELSE UNCHANGED <<sent, conn, held, openSockets>>

\* entry of connectWithRetry: c.retryCount = 0
EnterRetry(from) ==
    /\ retryCount' = 0
    /\ caller' = from
    /\ result' = NoResult
    /\ attempts' = 0
    /\ sleeps' = 0
    /\ pc' = "retry_loop"

\* a return statement of connectWithRetry
Return(r) == result' = r /\ pc' = "retry_return"

\* Connect, called by main: stores the credentials and calls connectWithRetry
Connect ==
    /\ mainPc = "connect" /\ pc = "start"
    /\ mainPc' = "in_connect"
    /\ EnterRetry("Connect")
    /\ UNCHANGED <<conn, state, lastConnectTime, cancelled, authResp, session, apiHost, done,
                   reader, signals, sent, authLog, authTime, lastErr>>
    /\ UNCHANGED <<ingestVars, filterVars, connConfig, maxCacheSize, loopVars, attemptVars, now, delay>>

\* head of the loop of connectWithRetry without the test of ctx.Err()
RetryLoop_IgnoresCancel ==
    /\ pc = "retry_loop"
    /\ IF retryCount >= connConfig.MaxRetryAttempts
       THEN Return(Returned("failed", 0, "none")) /\ UNCHANGED <<state, delay>>
       ELSE IF retryCount > 0
       THEN /\ setState(StateReconnecting)
            /\ delay' \in calculateBackoffDelay(connConfig, retryCount)
            /\ pc' = "backoff"
            /\ UNCHANGED result
       ELSE /\ setState(StateConnecting)
            /\ pc' = "attempt"
            /\ UNCHANGED <<result, delay>>

\* head of the loop of connectWithRetry skipping the backoff sleep
RetryLoop_NoSleep ==
    /\ pc = "retry_loop"
    /\ IF retryCount >= connConfig.MaxRetryAttempts
       THEN Return(Returned("failed", 0, "none")) /\ UNCHANGED state
       ELSE IF cancelled
       THEN Return(Returned("cancelled", 0, "none")) /\ UNCHANGED state
       ELSE /\ setState(IF retryCount > 0 THEN StateReconnecting ELSE StateConnecting)
            /\ pc' = "attempt"
            /\ UNCHANGED result
    /\ UNCHANGED delay

\* head of the loop of connectWithRetry: the loop condition, the test of
\* ctx.Err(), and the state the attempt is announced with
RetryLoop ==
    /\ pc = "retry_loop"
    /\ IF retryCount >= connConfig.MaxRetryAttempts
       THEN Return(Returned("failed", 0, "none")) /\ UNCHANGED <<state, delay>>
       ELSE IF cancelled
       THEN Return(Returned("cancelled", 0, "none")) /\ UNCHANGED <<state, delay>>
       ELSE IF retryCount > 0
       THEN /\ setState(StateReconnecting)
            /\ delay' \in calculateBackoffDelay(connConfig, retryCount)
            /\ pc' = "backoff"
            /\ UNCHANGED result
       ELSE /\ setState(StateConnecting)
            /\ pc' = "attempt"
            /\ UNCHANGED <<result, delay>>

connectWithRetry_Loop ==
    /\ mainPc # "exited"
    /\ RetryLoop
    /\ UNCHANGED <<conn, retryCount, lastConnectTime, cancelled, authResp, session, apiHost, mainPc,
                   caller, done, reader, signals, sent, attempts, sleeps, authLog,
                   authTime, lastErr>>
    /\ UNCHANGED <<ingestVars, filterVars, connConfig, maxCacheSize, loopVars, attemptVars, now>>

\* the select of the backoff sleep: time.After(delay) fires
BackoffElapsed ==
    /\ mainPc # "exited"
    /\ pc = "backoff"
    /\ sleeps' = sleeps + 1
    /\ pc' = "attempt"
    /\ UNCHANGED <<conn, state, retryCount, lastConnectTime, cancelled, authResp, session, apiHost,
                   mainPc, caller, done, result, reader, signals, sent, attempts,
                   authLog, authTime, lastErr>>
    /\ UNCHANGED <<ingestVars, filterVars, connConfig, maxCacheSize, loopVars, attemptVars, now, delay>>

\* the select of the backoff sleep: ctx.Done() is taken
BackoffCancelled ==
    /\ mainPc # "exited"
    /\ pc = "backoff"
    /\ cancelled
    /\ Return(Returned("cancelled_retry", 0, "none"))
    /\ UNCHANGED <<conn, state, retryCount, lastConnectTime, cancelled, authResp, session, apiHost,
                   mainPc, caller, done, reader, signals, sent, attempts, sleeps,
                   authLog, authTime, lastErr>>
    /\ UNCHANGED <<ingestVars, filterVars, connConfig, maxCacheSize, loopVars, attemptVars, now, delay>>

\* AttemptFailed with the budget test off by one
AttemptFailed_OffByOne(err) ==
    /\ lastErr' = err
    /\ retryCount' = retryCount + 1
    /\ IF retryCount + 1 > connConfig.MaxRetryAttempts
       THEN /\ setState(StateError)
            /\ Return(Returned("exhausted", connConfig.MaxRetryAttempts, err))
       ELSE /\ pc' = "retry_loop"
            /\ UNCHANGED <<state, result>>

\* attemptConnection returned err: the tail of the loop body
AttemptFailed(err) ==
    /\ lastErr' = err
    /\ retryCount' = retryCount + 1
    /\ IF retryCount + 1 >= connConfig.MaxRetryAttempts
       THEN /\ setState(StateError)
            /\ Return(Returned("exhausted", connConfig.MaxRetryAttempts, err))
       ELSE /\ pc' = "retry_loop"
            /\ UNCHANGED <<state, result>>

\* the staleness test of attemptConnection
NeedsAuth == authResp = NoAuth \/ now - lastConnectTime > AuthFreshness

\* the answers the login request may get after the token request was
\* answered with tok: none when authenticate returns before the login
LoginsAfter(tok) ==
    IF authenticate(tok, NoResponse).err = Errorf("could not perform login request: %w", "")
    THEN server.logins
    ELSE {NoResponse}

\* AuthFailed forgetting the cached authentication
AuthFailed_DropsCache ==
    /\ AttemptFailed("authentication failed")
    /\ authResp' = NoAuth
    /\ session' = ""
    /\ apiHost' = ""
    /\ UNCHANGED authTime

\* authenticate returned an error: attemptConnection returns it wrapped,
\* before any assignment
AuthFailed ==
    /\ AttemptFailed("authentication failed")
    /\ UNCHANGED <<authResp, session, apiHost, authTime>>

\* attemptConnection, step 1: authenticate unless a cached AuthResponse is reused
AttemptAuth ==
    /\ mainPc # "exited"
    /\ pc = "attempt"
    /\ attempts' = attempts + 1
    /\ IF NeedsAuth
       THEN \E tok \in server.tokens : \E login \in LoginsAfter(tok) :
              /\ authLog' = [did |-> "authenticate", cached |-> authResp # NoAuth,
                             age |-> now - authTime, token |-> tok, login |-> login]
              /\ authErr' = authenticate(tok, login).err
              /\ IF authenticate(tok, login).err = NoError
                 THEN /\ authResp' = authenticate(tok, login).authResp
                      /\ session' = SessionOf(authenticate(tok, login).authResp)
                      /\ apiHost' = APIHostOf(authenticate(tok, login).authResp)
                      /\ authTime' = now
                      /\ pc' = "dial"
                      /\ UNCHANGED <<state, retryCount, result, lastErr>>
                 ELSE AuthFailed
       ELSE /\ authLog' = [did |-> "reuse", cached |-> authResp # NoAuth,
                           age |-> now - authTime, token |-> NoResponse,
                           login |-> NoResponse]
            /\ pc' = "dial"
            /\ authErr' = NoError
            /\ UNCHANGED <<authResp, session, apiHost, authTime, state, retryCount, result, lastErr>>
    /\ UNCHANGED <<conn, lastConnectTime, cancelled, mainPc, caller, done, reader,
                   signals, sent, sleeps>>
    /\ UNCHANGED <<ingestVars, filterVars, connConfig, maxCacheSize, loopVars, server, dial, timers, held, openSockets, now, delay>>

\* attemptConnection without its closing of the previous connection
InstallConn_LeaksOld ==
    /\ conn' = OpenConn
    /\ held' = NewSocket
    /\ openSockets' = openSockets \cup {NewSocket}

\* the tail of attemptConnection: an existing connection is closed, then the
\* new one is stored
InstallConn ==
    /\ conn' = OpenConn
    /\ held' = NewSocket
    /\ openSockets' = (openSockets \ {held}) \cup {NewSocket}

\* attemptConnection, step 2: the dial; on success the new connection replaces
\* the old one and connectWithRetry returns nil
AttemptDial ==
    /\ mainPc # "exited"
    /\ pc = "dial"
    /\ dial' = Dialer(buildWebSocketURL(authResp), connConfig)
    /\ \E ok \in BOOLEAN :
         IF ok
         THEN /\ InstallConn
              /\ setState(StateConnected)
              /\ retryCount' = 0
              /\ lastConnectTime' = now
              /\ Return(Returned("ok", 0, "none"))
              /\ UNCHANGED lastErr
         ELSE /\ AttemptFailed("websocket dial failed")
              /\ UNCHANGED <<conn, lastConnectTime, held, openSockets>>
    /\ UNCHANGED <<cancelled, authResp, session, apiHost, mainPc, caller, done, reader, signals, sent,
                   attempts, sleeps, authLog, authTime>>
    /\ UNCHANGED <<ingestVars, filterVars, connConfig, maxCacheSize, loopVars, server, authErr, timers, now, delay>>

\* connectWithRetry has returned and its result is consumed: its local
\* variables are gone, and the observations of the call are cleared
CallEnds ==
    /\ result' = NoResult
    /\ delay' = 0
    /\ attempts' = 0
    /\ sleeps' = 0
    /\ lastErr' = "none"
    /\ authErr' = NoError
    /\ dial' = NoDial
    /\ authLog' = NoAuthLog

\* connectWithRetry has returned to Connect, and Connect to main: main exits
\* through log.Fatalf on an error and starts the Run goroutine otherwise
ConnectReturn ==
    /\ mainPc = "in_connect"
    /\ pc = "retry_return" /\ caller = "Connect"
    /\ IF result.kind = "ok"
       THEN mainPc' = "wait" /\ pc' = "run_start"
       ELSE mainPc' = "exited" /\ pc' = "fatal"
    /\ CallEnds
    /\ UNCHANGED <<conn, state, retryCount, lastConnectTime, cancelled, authResp, session, apiHost,
                   caller, done, reader, signals, sent, authTime>>
    /\ UNCHANGED <<ingestVars, filterVars, connConfig, maxCacheSize, loopVars, server, timers, held, openSockets, now>>

\* the filter lists main passes to Run
MainChannels == <<"#a">>
MainIgnored  == <<"#b">>

\* Run's prologue: the filter lists and sets, and the interrupt channel
RunStart ==
    /\ mainPc # "exited"
    /\ pc = "run_start"
    /\ channels' = RunPrologue(MainChannels, MainIgnored).channels
    /\ ignoredChannels' = RunPrologue(MainChannels, MainIgnored).ignoredChannels
    /\ channelSet' = RunPrologue(MainChannels, MainIgnored).channelSet
    /\ ignoredChannelSet' = RunPrologue(MainChannels, MainIgnored).ignoredChannelSet
    /\ pc' = "run_loop"
    /\ UNCHANGED <<conn, state, retryCount, lastConnectTime, cancelled, authResp, session, apiHost,
                   mainPc, caller, done, result, reader, signals, sent, attempts,
                   sleeps, authLog, authTime, lastErr>>
    /\ UNCHANGED <<ingestVars, connConfig, maxCacheSize, loopVars, attemptVars, now, delay>>

\* Run's select: the interrupt case calls Close and returns
RunInterrupt ==
    /\ mainPc # "exited"
    /\ pc = "run_loop"
    /\ "interrupt" \in signals
    /\ signals' = signals \ {"interrupt"}
    /\ Close
    /\ pc' = "run_returned"
    /\ UNCHANGED <<retryCount, lastConnectTime, authResp, session, apiHost, mainPc, caller, done,
                   result, reader, attempts, sleeps, authLog, authTime, lastErr>>
    /\ UNCHANGED <<ingestVars, filterVars, connConfig, maxCacheSize, loopVars, server, authErr, dial, timers, now, delay>>

\* Run's select: the ctx.Done() case returns
RunCancelled ==
    /\ mainPc # "exited"
    /\ pc = "run_loop"
    /\ cancelled
    /\ pc' = "run_returned"
    /\ UNCHANGED <<conn, state, retryCount, lastConnectTime, cancelled, authResp, session, apiHost,
                   mainPc, caller, done, result, reader, signals, sent, attempts,
                   sleeps, authLog, authTime, lastErr>>
    /\ UNCHANGED <<ingestVars, filterVars, connConfig, maxCacheSize, loopVars, attemptVars, now, delay>>

\* Run's select: the default case, taken when no other case is ready.  With
\* a live connection it enters runMessageLoop, which starts the reader
\* goroutine; in state Disconnected it returns; otherwise it sleeps a second
RunDefault ==
    /\ mainPc # "exited"
    /\ pc = "run_loop"
    /\ "interrupt" \notin signals /\ ~cancelled
    /\ IF state = StateConnected /\ conn # NoConn
       THEN /\ pc' = "message_loop"
            /\ done' = "empty"
            /\ reader' = "reading"
            /\ loopErr' = "none"
            /\ timers' = Tickers(connConfig)
       ELSE IF state = StateDisconnected
       THEN pc' = "run_returned" /\ UNCHANGED <<done, reader, loopErr, timers>>
       ELSE UNCHANGED <<pc, done, reader, loopErr, timers>>
    /\ UNCHANGED <<conn, state, retryCount, lastConnectTime, cancelled, authResp, session, apiHost,
                   mainPc, caller, result, signals, sent, attempts, sleeps,
                   authLog, authTime, lastErr, inbox, orphans>>
    /\ UNCHANGED <<ingestVars, filterVars, connConfig, maxCacheSize, server, authErr, dial, held,
                   openSockets, now, delay>>

\* the reader goroutine: ReadMessage fails, the error goes to done and the
\* goroutine ends
ReaderError ==
    /\ mainPc # "exited"
    /\ reader = "reading"
    /\ done = "empty"
    /\ done' = "read error"
    /\ reader' = "none"
    /\ UNCHANGED <<conn, state, retryCount, lastConnectTime, cancelled, authResp, session, apiHost,
                   pc, mainPc, caller, result, signals, sent, attempts, sleeps,
                   authLog, authTime, lastErr>>
    /\ UNCHANGED <<ingestVars, filterVars, connConfig, maxCacheSize, loopVars, attemptVars, now, delay>>

\* LoopFailed leaving the broken connection and its reader in place
LoopFailed_NoTeardown ==
    /\ setState(StateError)
    /\ EnterRetry("Run")
    /\ UNCHANGED <<conn, inbox, reader, orphans, lastSeenEID, eidCache, held, openSockets>>

\* LoopFailed also resetting the de-duplication cache and lastSeenEID
LoopFailed_FreshClient ==
    /\ setState(StateError)
    /\ conn' = NoConn
    /\ openSockets' = openSockets \ {held}
    /\ held' = 0
    /\ inbox' = <<>>
    /\ reader' = "none"
    /\ orphans' = IF reader = "fetching" THEN orphans + 1 ELSE orphans
    /\ EnterRetry("Run")
    /\ lastSeenEID' = 0
    /\ eidCache' = {}

\* runMessageLoop returned err to Run: the state becomes Error, the broken
\* connection is closed and released, and connectWithRetry is called.  The
\* frames not yet read are lost with the connection; the reader goroutine
\* ends on the closed connection unless it is in a backlog request, which
\* it carries on with.  The de-duplication cache and lastSeenEID stay.
LoopFailed ==
    /\ setState(StateError)
    /\ conn' = NoConn
    /\ openSockets' = openSockets \ {held}
    /\ held' = 0
    /\ inbox' = <<>>
    /\ reader' = "none"
    /\ orphans' = IF reader = "fetching" THEN orphans + 1 ELSE orphans
    /\ EnterRetry("Run")
    /\ UNCHANGED <<lastSeenEID, eidCache>>

\* the select of runMessageLoop: ctx.Done()
LoopCancelled ==
    /\ mainPc # "exited"
    /\ pc = "message_loop"
    /\ cancelled
    /\ loopErr' = "context cancelled"
    /\ LoopFailed
    /\ UNCHANGED <<lastConnectTime, cancelled, authResp, session, apiHost, mainPc, done,
                   signals, sent, authLog, authTime, lastErr>>
    /\ UNCHANGED <<db, insertLog, outcome, backlogTrace, nframes>>
    /\ UNCHANGED <<filterVars, connConfig, maxCacheSize, server, authErr, dial, timers, now, delay>>

\* the select of runMessageLoop: the reader's error arrives on done
LoopReadError ==
    /\ mainPc # "exited"
    /\ pc = "message_loop"
    /\ done # "empty"
    /\ done' = "empty"
    /\ loopErr' = done
    /\ LoopFailed
    /\ UNCHANGED <<lastConnectTime, cancelled, authResp, session, apiHost, mainPc,
                   signals, sent, authLog, authTime, lastErr>>
    /\ UNCHANGED <<db, insertLog, outcome, backlogTrace, nframes>>
    /\ UNCHANGED <<filterVars, connConfig, maxCacheSize, server, authErr, dial, timers, now, delay>>

\* the frame sendHeartbeat writes
sendHeartbeat == Sent("heartbeat", lastSeenEID)

\* the frame sendPing writes
sendPing == Sent("ping", 0)

\* the select of runMessageLoop: a ticker fires and sendHeartbeat or sendPing
\* writes to the connection; a failed write ends the loop, and a write
\* through the nil handle that Close left behind is a nil pointer dereference
LoopTicker ==
    /\ mainPc # "exited"
    /\ pc = "message_loop"
    /\ \E frame \in {sendHeartbeat, sendPing}, ok \in BOOLEAN :
         IF conn = NoConn
         THEN /\ Panic
              /\ UNCHANGED <<conn, state, retryCount, caller, result, attempts,
                             sleeps, sent, reader, lastSeenEID, eidCache, loopVars,
                             held, openSockets>>
         ELSE IF ok
         THEN /\ sent' = frame
              /\ UNCHANGED <<conn, state, retryCount, caller, result, attempts,
                             sleeps, pc, mainPc, reader, lastSeenEID, eidCache,
                             loopVars, held, openSockets>>
         ELSE /\ loopErr' = IF frame = sendPing THEN "ping failed" ELSE "heartbeat failed"
              /\ LoopFailed
              /\ UNCHANGED <<sent, mainPc>>
    /\ UNCHANGED <<lastConnectTime, cancelled, authResp, session, apiHost, done,
                   signals, authLog, authTime, lastErr>>
    /\ UNCHANGED <<db, insertLog, outcome, backlogTrace, nframes>>
    /\ UNCHANGED <<filterVars, connConfig, maxCacheSize, server, authErr, dial, timers, now, delay>>

\* connectWithRetry has returned to Run: Run returns when the retry budget
\* is used up and goes round its loop otherwise
ReconnectReturn ==
    /\ mainPc # "exited"
    /\ pc = "retry_return" /\ caller = "Run"
    /\ IF result.kind # "ok" /\ retryCount >= connConfig.MaxRetryAttempts
       THEN pc' = "run_returned"
       ELSE pc' = "run_loop"
    /\ CallEnds
    /\ UNCHANGED <<conn, state, retryCount, lastConnectTime, cancelled, authResp, session, apiHost,
                   mainPc, caller, done, reader, signals, sent, authTime>>
    /\ UNCHANGED <<ingestVars, filterVars, connConfig, maxCacheSize, loopVars, server, timers, held, openSockets, now>>

\* SIGINT or SIGTERM arrives while main waits: SIGINT is delivered to main's
\* quit channel and to Run's interrupt channel, SIGTERM to quit only
Signal ==
    /\ mainPc = "wait"
    /\ \E sig \in {{"quit", "interrupt"}, {"quit"}} :
         /\ ~(sig \subseteq signals)
         /\ signals' = signals \cup (IF pc = "run_start" THEN {"quit"} ELSE sig)
    /\ UNCHANGED <<conn, state, retryCount, lastConnectTime, cancelled, authResp, session, apiHost,
                   pc, mainPc, caller, done, result, reader, sent, attempts,
                   sleeps, authLog, authTime, lastErr>>
    /\ UNCHANGED <<ingestVars, filterVars, connConfig, maxCacheSize, loopVars, attemptVars, now, delay>>

\* main receives from quit and returns: the deferred client.Close() runs
MainClose ==
    /\ mainPc = "wait"
    /\ "quit" \in signals
    /\ signals' = signals \ {"quit"}
    /\ Close
    /\ mainPc' = "closed"
    /\ UNCHANGED <<retryCount, lastConnectTime, authResp, session, apiHost, pc, caller, done,
                   result, reader, attempts, sleeps, authLog, authTime, lastErr>>
    /\ UNCHANGED <<ingestVars, filterVars, connConfig, maxCacheSize, loopVars, server, authErr, dial, timers, now, delay>>

\* main has returned: the process ends with exit code 0
ProcessExit ==
    /\ mainPc = "closed"
    /\ mainPc' = "exited"
    /\ UNCHANGED <<conn, state, retryCount, lastConnectTime, cancelled, authResp, session, apiHost,
                   pc, caller, done, result, reader, signals, sent, attempts,
                   sleeps, authLog, authTime, lastErr>>
    /\ UNCHANGED <<ingestVars, filterVars, connConfig, maxCacheSize, loopVars, attemptVars, now, delay>>

\* the wall clock advances
Tick ==
    /\ mainPc # "exited"
    /\ now < BootTime + MaxTicks * TickSeconds
    /\ now' = now + TickSeconds
    /\ UNCHANGED <<connVars, ingestVars, filterVars, connConfig, maxCacheSize, loopVars, attemptVars, delay>>

\* max_retry_attempts as the configuration file may give it; 0 is "not given"
ConfiguredRetries == (0 - 1)..MaxBudget

InitConn ==
    /\ \E m \in ConfiguredRetries : NewIRCCloudClient(LoadedConfig(m))
    /\ InitRest

NextConn ==
    \/ Connect \/ connectWithRetry_Loop \/ BackoffElapsed \/ BackoffCancelled
    \/ AttemptAuth \/ AttemptDial \/ ConnectReturn \/ RunStart \/ RunInterrupt
    \/ RunCancelled \/ RunDefault \/ ReaderError \/ LoopCancelled \/ LoopReadError
    \/ LoopTicker \/ ReconnectReturn \/ Signal \/ MainClose \/ ProcessExit \/ Tick

SpecConn == InitConn /\ [][NextConn]_vars

\* the steps of the process itself: every step except the arrival of a
\* signal and the advance of the clock, which the environment takes
ProgramStep ==
    \/ Connect \/ connectWithRetry_Loop \/ BackoffElapsed \/ BackoffCancelled
    \/ AttemptAuth \/ AttemptDial \/ ConnectReturn \/ RunStart \/ RunInterrupt
    \/ RunCancelled \/ RunDefault \/ ReaderError \/ LoopCancelled \/ LoopReadError
    \/ LoopTicker \/ ReconnectReturn \/ MainClose \/ ProcessExit

\* the connection manager under the Go scheduler: a goroutine that can take
\* a step eventually takes one
SpecConnFair == InitConn /\ [][NextConn]_vars /\ WF_vars(ProgramStep)

----------------------------------------------------------------------------
(* The message-loop specification: a connected client whose Run goroutine
   supervises runMessageLoop, with frames arriving on the connection *)

\* frames the message-loop specification lets arrive, in total and unread
MaxLoopFrames == 2
MaxInbox == MaxLoopFrames - 1

\* the frames that arrive: live messages on the allowed channel, one on the
\* denied channel, a frame that is not JSON, and an oob_include frame
LoopFrames ==
    {Frame("buffer_msg", "#a", e, PlainBody, 0) : e \in 1..MaxEID}
    \cup {Frame("buffer_msg", "#b", MaxEID, PlainBody, 0), InvalidFrame, OobFrame}

\* the answers to the backlog GET: every failure, the empty batch and a
\* batch of one event
LoopResponses ==
    {r \in BacklogResponses : r.kind # "ok"}
    \cup {[kind |-> "ok", events |-> <<>>],
          [kind |-> "ok", events |-> <<Frame("buffer_msg", "#a", 1, ColoredBody, SomeServerTime)>>]}

\* the client after Connect has succeeded and Run has stored the filter
\* lists, either at once or after the connection has been up for a while
InitLoop ==
    /\ AfterRunPrologue(MainChannels, MainIgnored)
    /\ connConfig = LoadedConfig(MaxBudget)
    /\ now \in {BootTime, BootTime + MaxTicks * TickSeconds}
    /\ conn = OpenConn
    /\ state = StateConnected
    /\ retryCount = 0
    /\ lastConnectTime = BootTime
    /\ cancelled = FALSE
    /\ authResp = AuthOf(PlainLogin.body)
    /\ session = SessionOf(authResp)
    /\ apiHost = APIHostOf(authResp)
    /\ held = 1
    /\ openSockets = {1}
    /\ server = PlainServer
    /\ authErr = NoError
    /\ dial = NoDial
    /\ timers = NoTickers
    /\ authTime = BootTime
    /\ authLog = NoAuthLog
    /\ attempts = 0
    /\ sleeps = 0
    /\ lastErr = "none"
    /\ caller = "Connect"
    /\ result = NoResult
    /\ pc = "run_loop"
    /\ mainPc = "wait"
    /\ lastSeenEID = 0
    /\ eidCache = {}
    /\ maxCacheSize = MaxCacheSize
    /\ db = <<>>
    /\ done = "empty"
    /\ delay = 0
    /\ reader = "none"
    /\ signals = {}
    /\ sent = NoSent
    /\ inbox = <<>>
    /\ orphans = 0
    /\ loopErr = "none"
    /\ insertLog = <<>>
    /\ outcome = Outcome(NoFrame, "none", "none", "none", NoResp, {})
    /\ backlogTrace = <<>>
    /\ nframes = 0

\* frames received and not yet through processMessage
InFlight == Len(inbox) + orphans + (IF reader = "fetching" THEN 1 ELSE 0)

\* the server sends a frame on the open connection
FrameArrives ==
    /\ mainPc # "exited"
    /\ conn # NoConn
    /\ Len(inbox) < MaxInbox
    /\ nframes + InFlight < MaxLoopFrames
    /\ \E f \in LoopFrames : inbox' = Append(inbox, f)
    /\ UNCHANGED <<orphans, loopErr, attemptVars, connVars, ingestVars, filterVars, connConfig, maxCacheSize, now, delay>>

\* ReaderAfter ending the reader goroutine when processMessage returns an error
ReaderAfter_StopsOnError(err) == IF err # "none" THEN "none" ELSE "reading"

\* the reader goroutine after processMessage has returned err: the error is
\* logged and the goroutine reads the next frame
ReaderAfter(err) == "reading"

\* the reader goroutine: ReadMessage returns a frame and processMessage is
\* called with it; for an oob_include frame the call goes as far as the
\* backlog GET, which the goroutine then waits for
ReaderRead ==
    /\ mainPc # "exited"
    /\ reader = "reading"
    /\ conn # NoConn
    /\ inbox # <<>>
    /\ inbox' = Tail(inbox)
    /\ LET message == Head(inbox) IN
         IF message.valid /\ message.type = "oob_include"
         THEN /\ reader' = "fetching"
              /\ UNCHANGED ingestVars
         ELSE /\ \E failing \in {{}, {1}} : processMessage(message, NoResp, failing)
              /\ reader' = ReaderAfter(outcome'.err)
    /\ UNCHANGED <<conn, state, retryCount, lastConnectTime, cancelled, authResp, session, apiHost,
                   pc, mainPc, caller, done, result, signals, sent, attempts,
                   sleeps, authLog, authTime, lastErr, orphans, loopErr, attemptVars>>
    /\ UNCHANGED <<filterVars, connConfig, maxCacheSize, now, delay>>

\* the reader goroutine: the backlog GET is answered, processBacklog and
\* processMessage return, and the goroutine calls c.conn.ReadMessage again,
\* which is a nil pointer dereference if Close has released the handle
BacklogDone ==
    /\ mainPc # "exited"
    /\ reader = "fetching"
    /\ \E resp \in LoopResponses, failing \in {{}, {1}} :
         processMessage(OobFrame, resp, failing)
    /\ IF conn = NoConn
       THEN Panic /\ reader' = "none"
       ELSE reader' = ReaderAfter(outcome'.err) /\ UNCHANGED <<pc, mainPc>>
    /\ UNCHANGED <<conn, state, retryCount, lastConnectTime, cancelled, authResp, session, apiHost,
                   caller, done, result, signals, sent, attempts,
                   sleeps, authLog, authTime, lastErr, loopVars, attemptVars>>
    /\ UNCHANGED <<filterVars, connConfig, maxCacheSize, now, delay>>

\* a reader goroutine whose message loop has ended finishes its backlog
\* request and calls c.conn.ReadMessage again: a nil pointer dereference
\* while no connection is installed, and a second reader on the new
\* connection otherwise, which gorilla/websocket does not support; it may
\* end the process or go on reading beside the new reader goroutine
OrphanDone ==
    /\ mainPc # "exited"
    /\ orphans > 0
    /\ orphans' = orphans - 1
    /\ \E resp \in LoopResponses, failing \in {{}, {1}} :
         processMessage(OobFrame, resp, failing)
    /\ IF conn = NoConn
       THEN Panic
       ELSE Panic \/ UNCHANGED <<pc, mainPc>>
    /\ UNCHANGED <<conn, state, retryCount, lastConnectTime, cancelled, authResp, session, apiHost,
                   caller, done, result, reader, signals, sent, attempts,
                   sleeps, authLog, authTime, lastErr, inbox, loopErr, attemptVars>>
    /\ UNCHANGED <<filterVars, connConfig, maxCacheSize, now, delay>>

NextLoop ==
    \/ RunDefault \/ FrameArrives \/ ReaderRead \/ BacklogDone \/ OrphanDone
    \/ ReaderError \/ LoopReadError \/ LoopTicker \/ connectWithRetry_Loop
    \/ BackoffElapsed \/ AttemptAuth \/ AttemptDial \/ ReconnectReturn

SpecLoop == InitLoop /\ [][NextLoop]_vars

----------------------------------------------------------------------------
(* The connection-attempt specification: connectWithRetry, called by Run on
   a client that lost its connection or by Connect on a client that holds
   one, with every kind of answer from the endpoints and with duration
   strings that do not parse *)

\* a duration string time.ParseDuration rejects
BadDuration == "invalid"

DurationFields == {"HeartbeatInterval", "PingInterval", "ConnectionTimeout",
                   "InitialRetryDelay", "MaxRetryDelay"}

\* the loaded configuration with the duration strings of the fields in bad
\* replaced by one that does not parse
WithBadDurations(bad) ==
    [f \in DOMAIN LoadedConfig(MaxBudget) |->
        IF f \in bad THEN BadDuration ELSE LoadedConfig(MaxBudget)[f]]

\* every field good, every field bad, each single field bad, and a bad
\* maximum delay beside an initial delay of five minutes
AttemptConfigs ==
    {WithBadDurations(bad) : bad \in {{}, DurationFields} \cup {{f} : f \in DurationFields}}
    \cup {[WithBadDurations({"MaxRetryDelay"}) EXCEPT !.InitialRetryDelay = "5m"]}

\* the bodies a login may be answered with
LoginBodies ==
    {Body(FALSE, FALSE, "", TRUE, <<>>, <<>>, "", ""),
     Body(TRUE, FALSE, "Invalid credentials", TRUE, <<>>, <<>>, "", ""),
     Body(TRUE, FALSE, "", FALSE, <<>>, <<>>, "", "")}
    \cup {Body(TRUE, TRUE, "", TRUE, h, p, SomeSession, SomeAPIHost) :
             h \in {<<>>, <<"api-2.irccloud.com">>},
             p \in {<<>>, <<"/", "websocket", "/", "2">>, <<"/", "ws", "?", "v=1">>,
                    <<"/", "ws", "%zz">>, <<"/", "ws", "#", "top">>}}

\* the bodies a login is answered with beside an error status
ErrorBodies ==
    {Body(FALSE, FALSE, "", TRUE, <<>>, <<>>, "", ""),
     Body(TRUE, FALSE, "Invalid credentials", TRUE, <<>>, <<>>, "", "")}

\* every kind of answer of the two endpoints
AnyServer ==
    [tokens |-> {PlainToken,
                 Response(FALSE, 0, Body(FALSE, FALSE, "", TRUE, <<>>, <<>>, "", "")),
                 Response(TRUE, 500, Body(FALSE, FALSE, "", TRUE, <<>>, <<>>, "", "")),
                 Response(TRUE, StatusOK, Body(FALSE, FALSE, "", TRUE, <<>>, <<>>, "", "")),
                 Response(TRUE, StatusOK, Body(TRUE, FALSE, "", TRUE, <<>>, <<>>, "", ""))},
     logins |-> {Response(FALSE, 0, Body(FALSE, FALSE, "", TRUE, <<>>, <<>>, "", ""))}
                \cup {Response(TRUE, StatusOK, b) : b \in LoginBodies}
                \cup {Response(TRUE, st, b) : st \in {401, 500}, b \in ErrorBodies}]

InitAttempt ==
    /\ AfterRunPrologue(MainChannels, MainIgnored)
    /\ connConfig \in AttemptConfigs
    /\ server = AnyServer
    /\ now = BootTime + TickSeconds
    /\ \/ /\ conn = NoConn /\ held = 0 /\ openSockets = {}
          /\ state = StateError /\ caller = "Run" /\ mainPc = "wait"
          /\ authResp \in {NoAuth, AuthOf(PlainLogin.body)}
          /\ session = SessionOf(authResp)
          /\ apiHost = APIHostOf(authResp)
       \/ /\ conn = OpenConn /\ held = 1 /\ openSockets = {1}
          /\ state = StateConnected /\ caller = "Connect" /\ mainPc = "in_connect"
          /\ authResp = AuthOf(PlainLogin.body)
          /\ session = SessionOf(authResp)
          /\ apiHost = APIHostOf(authResp)
    /\ lastConnectTime \in {BootTime} \cup (IF connConfig = LoadedConfig(MaxBudget)
                                             THEN {BootTime - AuthFreshness} ELSE {})
    /\ authTime = IF authResp = NoAuth THEN ZeroTime ELSE lastConnectTime
    /\ pc = "retry_loop"
    /\ retryCount = 0
    /\ cancelled = FALSE
    /\ result = NoResult
    /\ authLog = NoAuthLog
    /\ attempts = 0
    /\ sleeps = 0
    /\ lastErr = "none"
    /\ authErr = NoError
    /\ dial = NoDial
    /\ timers = NoTickers
    /\ lastSeenEID = 0
    /\ eidCache = {}
    /\ maxCacheSize = MaxCacheSize
    /\ db = <<>>
    /\ done = "empty"
    /\ delay = 0
    /\ reader = "none"
    /\ signals = {}
    /\ sent = NoSent
    /\ inbox = <<>>
    /\ orphans = 0
    /\ loopErr = "none"
    /\ insertLog = <<>>
    /\ outcome = Outcome(NoFrame, "none", "none", "none", NoResp, {})
    /\ backlogTrace = <<>>
    /\ nframes = 0

NextAttempt ==
    \/ connectWithRetry_Loop \/ BackoffElapsed \/ AttemptAuth \/ AttemptDial
    \/ ConnectReturn \/ RunStart \/ ReconnectReturn \/ RunDefault

SpecAttempt == InitAttempt /\ [][NextAttempt]_vars

----------------------------------------------------------------------------
(* The closed-client specification: Close is called on a client before
   Connect, or by main while Run is in its message loop, and the client is
   used afterwards *)

\* Close called on a client that was never connected
CloseBeforeConnect ==
    /\ pc = "start" /\ mainPc = "connect"
    /\ ~cancelled
    /\ Close
    /\ UNCHANGED <<retryCount, lastConnectTime, authResp, session, apiHost, pc, mainPc,
                   caller, done, result, reader, signals, attempts, sleeps, authLog,
                   authTime, lastErr>>
    /\ UNCHANGED <<ingestVars, filterVars, connConfig, maxCacheSize, loopVars, server,
                   authErr, dial, timers, now, delay>>

\* Connect called on a closed client
ConnectClosed == cancelled /\ Connect

InitClosed == InitConn \/ InitLoop

NextClosed ==
    \/ CloseBeforeConnect \/ ConnectClosed \/ connectWithRetry_Loop \/ ConnectReturn
    \/ RunDefault \/ Signal \/ MainClose \/ RunInterrupt \/ RunCancelled
    \/ LoopCancelled \/ ReconnectReturn \/ ProcessExit \/ Tick

SpecClosed == InitClosed /\ [][NextClosed]_vars

----------------------------------------------------------------------------
(* The long-sequence specification: one Connect call whose retry budget is
   large enough for the float64 product of calculateBackoffDelay to leave
   the int64 range *)

\* the configured max_retry_attempts
LongBudget == 36

RetryConfigs ==
    {[LoadedConfig(LongBudget) EXCEPT !.MaxRetryDelay = x] : x \in {"30s", "5m"}}

InitRetry ==
    /\ \E cfg \in RetryConfigs : NewIRCCloudClient(cfg)
    /\ InitRest

NextRetry ==
    \/ Connect \/ connectWithRetry_Loop \/ BackoffElapsed \/ AttemptAuth
    \/ AttemptDial \/ ConnectReturn

SpecRetry == InitRetry /\ [][NextRetry]_vars

----------------------------------------------------------------------------
(* The backoff specification: calculateBackoffDelay on a client whose
   configuration and retry counter are set directly, as the tests do *)

\* the largest retry counter the backoff specification sets
MaxRetryCount == 40

BackoffConfigs ==
    {[LoadedConfig(0) EXCEPT !.InitialRetryDelay = i, !.MaxRetryDelay = x,
                             !.BackoffMultiplier = m] :
        i \in {"1s", "2s", "invalid"}, x \in {"30s", "5m", "invalid"}, m \in {1, 2, 3}}

InitBackoff ==
    /\ \E cfg \in BackoffConfigs : NewIRCCloudClient(cfg)
    /\ InitRest

\* client.retryCount = n
SetRetryCount ==
    /\ pc = "start"
    /\ \E n \in 0..MaxRetryCount : retryCount' = n
    /\ pc' = "retry_set"
    /\ UNCHANGED <<conn, state, lastConnectTime, cancelled, authResp, session, apiHost, mainPc,
                   caller, done, result, reader, signals, sent, attempts, sleeps,
                   authLog, authTime, lastErr>>
    /\ UNCHANGED <<ingestVars, filterVars, connConfig, maxCacheSize, loopVars, attemptVars, now, delay>>

\* delay := client.calculateBackoffDelay()
CallBackoff ==
    /\ pc = "retry_set"
    /\ delay' \in calculateBackoffDelay(connConfig, retryCount)
    /\ pc' = "delay_computed"
    /\ UNCHANGED <<conn, state, retryCount, lastConnectTime, cancelled, authResp, session, apiHost,
                   mainPc, caller, done, result, reader, signals, sent, attempts,
                   sleeps, authLog, authTime, lastErr>>
    /\ UNCHANGED <<ingestVars, filterVars, connConfig, maxCacheSize, loopVars, attemptVars, now>>

NextBackoff == SetRetryCount \/ CallBackoff

SpecBackoff == InitBackoff /\ [][NextBackoff]_vars

----------------------------------------------------------------------------
(* Properties of the persistence port and the stream processor *)

InsertedEIDs == {insertLog[i].eid : i \in 1..Len(insertLog)}

\* C1: after any sequence of InsertMessage calls the table holds exactly one
\* row for each distinct event id that was inserted.
C1_IdempotentInsert == Len(db) = Cardinality(InsertedEIDs)

\* C2: a buffer_msg frame whose event id equals that of an earlier accepted
\* frame adds no second row: no two rows written by the live path come from
\* the same event id.
C2_LiveDedup ==
    \A i, j \in 1..Len(insertLog) :
        (i < j /\ insertLog[i].via = "live" /\ insertLog[j].via = "live")
            => insertLog[i].eid # insertLog[j].eid

\* C3: an event that was already persisted, from the live stream or from an
\* earlier backlog batch, is not persisted again by a backlog batch.
C3_BackfillDedup ==
    \A i, j \in 1..Len(insertLog) :
        (i < j /\ insertLog[j].via = "backlog")
            => insertLog[i].eid # insertLog[j].eid

\* the branches of processMessage behind the admission filter
AcceptedBranches == {"duplicate", "insert_error", "stored"}

\* C4: a buffer_msg on channel c is accepted if and only if c is not in the
\* deny-list and the allow-list is empty or contains c.
C4_AdmissionFilter ==
    (outcome.branch \in AcceptedBranches \cup {"filtered"}
        /\ outcome.frame.type = "buffer_msg")
    => LET c == outcome.frame.chan
           A == Range(channels)
           D == Range(ignoredChannels)
       IN  (outcome.branch \in AcceptedBranches) <=> (c \notin D /\ (A = {} \/ c \in A))

\* a buffer_msg on a channel that is in both lists was rejected
C4_Witness ==
    /\ outcome.branch = "filtered"
    /\ outcome.frame.type = "buffer_msg"
    /\ outcome.frame.chan \in Range(channels) \cap Range(ignoredChannels)

\* C5: processBacklog hands an event to the persistence port exactly when
\* the filter condition of processMessage accepts the same event.
C5_SameAdmission ==
    \A i \in 1..Len(backlogTrace) :
        backlogTrace[i].handed <=> AcceptLive(backlogTrace[i].event)

\* a batch of which one buffer_msg was persisted and another one was skipped
C5_Witness ==
    \E i, j \in 1..Len(backlogTrace) :
        /\ backlogTrace[i].event.type = "buffer_msg" /\ backlogTrace[i].handed
        /\ backlogTrace[j].event.type = "buffer_msg" /\ ~backlogTrace[j].handed
        /\ Len(db) = 1

----------------------------------------------------------------------------
(* Properties of the connection manager *)

\* the edges of the state machine; the edge Connecting -> Reconnecting that
\* a retried connect takes is counted among them
MachineEdges ==
    {<<StateDisconnected, StateConnecting>>, <<StateConnecting, StateConnected>>,
     <<StateConnecting, StateReconnecting>>,
     <<StateConnected, StateReconnecting>>, <<StateReconnecting, StateConnected>>,
     <<StateConnecting, StateError>>, <<StateReconnecting, StateError>>}
    \cup {<<st, StateDisconnected>> : st \in ConnectionState}

\* C6: every change of the connection state follows an edge of the state
\* machine, and the state becomes Error only when the attempts are exhausted.
C6_StateMachine ==
    [][state' # state =>
         /\ <<state, state'>> \in MachineEdges
         /\ state' = StateError => retryCount' >= connConfig.MaxRetryAttempts]_vars

Budget == IF connConfig.MaxRetryAttempts > 0 THEN connConfig.MaxRetryAttempts ELSE 0

\* C7: a connect call makes at most maxRetryAttempts attempts; attempt 0 is
\* made in state Connecting with no sleep before it, attempt N > 0 in state
\* Reconnecting after one backoff sleep per retry; on the first success the
\* state is Connected, the retry counter is 0 and the loop has ended.  The
\* state is the one the loop set unless Close has run in between.
C7_ConnectAttempts ==
    /\ attempts <= Budget
    /\ pc = "attempt" =>
         /\ attempts = retryCount
         /\ sleeps = retryCount
         /\ ~cancelled => state = IF retryCount = 0 THEN StateConnecting
                                                    ELSE StateReconnecting
    /\ pc = "backoff" => (sleeps = retryCount - 1 /\ attempts = retryCount)
    /\ (pc = "retry_return" /\ result.kind = "ok") =>
         /\ retryCount = 0
         /\ sleeps = attempts - 1
         /\ ~cancelled => (state = StateConnected /\ conn = OpenConn)

\* connect succeeded on its second attempt, after one backoff sleep
C7_Witness ==
    /\ pc = "retry_return" /\ result.kind = "ok"
    /\ attempts = 2 /\ sleeps = 1 /\ ~cancelled

\* C8 as stated: for every configured maxRetryAttempts, a connect whose
\* attempts all fail, without cancellation, ends in state Error after
\* exactly maxRetryAttempts attempts, with a failure that reports the number
\* of attempts and the last error.
C8_ExhaustedAnyBudget ==
    (pc = "retry_return" /\ result.kind # "ok" /\ ~cancelled) =>
        /\ state = StateError
        /\ attempts = connConfig.MaxRetryAttempts
        /\ result = Returned("exhausted", attempts, lastErr)
        /\ lastErr # "none"

\* C8, amended: the same for every configured maxRetryAttempts of at least 1.
C8_Exhausted ==
    connConfig.MaxRetryAttempts >= 1 => C8_ExhaustedAnyBudget

\* connect gave up after two failed attempts
C8_Witness ==
    /\ pc = "retry_return" /\ result.kind = "exhausted" /\ ~cancelled
    /\ attempts = 2 /\ state = StateError

\* C10: a connection attempt authenticates if and only if no AuthResult is
\* cached or the cached one is older than the freshness window.
C10_AuthIffStale ==
    authLog.did # "none" =>
        (authLog.did = "authenticate" <=> (~authLog.cached \/ authLog.age > AuthFreshness))

----------------------------------------------------------------------------
(* Properties of the backoff computation *)

Min(a, b) == IF a < b THEN a ELSE b

\* min(initial * multiplier^n, cap) for multiplier >= 1
RECURSIVE CappedPower(_, _, _, _)
CappedPower(initial, multiplier, n, cap) ==
    IF n = 0 THEN Min(initial, cap)
    ELSE Min(CappedPower(initial, multiplier, n - 1, cap) * multiplier, cap)

\* the delays of the test table for retryCount 0..5
TableDelays == <<1, 2, 4, 8, 16, 30>>

\* C9: the delay is min(initialDelay * multiplier^retryCount, maxDelay); with
\* 1s, 2.0 and 30s it is 1, 2, 4, 8, 16, 30 seconds for retryCount 0..5 and
\* 30 seconds for every larger retryCount.
C9_BackoffDelay ==
    pc = "delay_computed" =>
        LET initial == IF ParseDuration(connConfig.InitialRetryDelay).ok
                       THEN ParseDuration(connConfig.InitialRetryDelay).seconds
                       ELSE DefaultInitialDelay
            cap     == IF ParseDuration(connConfig.MaxRetryDelay).ok
                       THEN ParseDuration(connConfig.MaxRetryDelay).seconds
                       ELSE DefaultMaxDelay
        IN  /\ delay = CappedPower(initial, connConfig.BackoffMultiplier, retryCount, cap)
            /\ (connConfig.InitialRetryDelay = "1s" /\ connConfig.BackoffMultiplier = 2
                  /\ connConfig.MaxRetryDelay = "30s")
               => delay = IF retryCount <= 5 THEN TableDelays[retryCount + 1] ELSE 30

----------------------------------------------------------------------------
(* Properties of Close and of cancellation *)

\* Close is the only caller of cancelFunc and is one step of the model: the
\* context is cancelled exactly when a call of Close has returned
CloseReturned == cancelled

\* C11: once Close has returned, the connection state is Disconnected and
\* stays Disconnected, whatever Run, runMessageLoop and connectWithRetry do.
C11_CloseTerminal == CloseReturned => state = StateDisconnected

\* a step that is a call of Close: main's deferred call or the call in Run's
\* interrupt case
CloseCall == MainClose \/ RunInterrupt

\* C12: a call of Close made after an earlier call has returned finds no
\* connection to write to or close, and leaves the state Disconnected, the
\* context cancelled and the connection handle released.
C12_CloseIdempotent ==
    [][(CloseReturned /\ CloseCall) =>
          /\ conn = NoConn /\ sent' = sent
          /\ state' = StateDisconnected /\ cancelled' /\ conn' = NoConn]_vars

\* C13: once the context is cancelled, a pending backoff sleep is not
\* followed by an attempt and connectWithRetry returns a failure, no dial is
\* started, and no attempt installs a connection or sets the state Connected.
C13_CancellationObserved ==
    [][cancelled =>
          /\ pc = "backoff" => pc' \in {"backoff", "retry_return"}
          /\ (pc = "backoff" /\ pc' = "retry_return") => result'.kind # "ok"
          /\ pc = "attempt" => pc' # "dial"
          /\ conn' # conn => conn' = NoConn
          /\ state' = StateConnected => state = StateConnected]_vars

----------------------------------------------------------------------------
(* Properties of the message loop *)

\* the errors that end runMessageLoop on a broken connection
LoopErrors == {"read error", "heartbeat failed", "ping failed"}

ReaderReturn == nframes' = nframes + 1 /\ reader \in {"reading", "fetching"}

\* C15: when processMessage returns an error for a frame (it does not parse,
\* or its insert fails), the reader goroutine goes on reading, and the
\* connection state, the connection and the message loop are unchanged; and a
\* frame that passes the filter and is not in the cache is handed to the
\* store whatever happened to the frames before it.
C15_PerMessageErrors ==
    [][ReaderReturn =>
         /\ outcome'.err # "none" =>
              /\ reader' = "reading" /\ done' = done /\ loopErr' = loopErr
              /\ state' = state /\ conn' = conn /\ pc' = pc
         /\ (outcome'.frame.valid /\ AcceptLive(outcome'.frame)
               /\ outcome'.frame.eid \notin eidCache) =>
              /\ outcome'.branch \in {"stored", "insert_error"}
              /\ outcome'.branch = "stored" =>
                   db' = Append(db, Row(LiveMessage(outcome'.frame)))]_vars

\* an insert failed for one frame, and the next frame was persisted
C15_Witness ==
    /\ nframes = 2 /\ Cardinality(eidCache) = 2 /\ Len(db) = 1
    /\ outcome.branch = "stored" /\ reader = "reading" /\ state = StateConnected

\* C16: a failed backfill (request error, status other than 200, gzip or
\* decode error) persists nothing, processMessage returns nil for the
\* oob_include frame, the connection state is unchanged and the reader
\* goroutine of the running loop goes on reading (a step that leaves orphans
\* unchanged is a step of the running loop's own request).
C16_BackfillFailure ==
    [][(nframes' = nframes + 1 /\ outcome'.backlogErr # "none") =>
         /\ db' = db /\ insertLog' = insertLog
         /\ outcome'.err = "none"
         /\ state' = state /\ conn' = conn
         /\ (reader = "fetching" /\ orphans' = orphans) =>
              (reader' = "reading" /\ pc' = pc /\ loopErr' = loopErr)]_vars

\* the backlog request of the running loop got a status other than 200
C16_Witness ==
    /\ outcome.backlogErr = "status" /\ outcome.err = "none"
    /\ reader = "reading" /\ pc = "message_loop" /\ orphans = 0 /\ loopErr = "none"

\* C17: in a batch that was fetched and decoded, every event that passes the
\* filter is handed to InsertMessage, also after an insert of an earlier
\* event has failed, and processBacklog returns nil.
C17_BatchSurvivesInsertError ==
    (outcome.branch = "backlog" /\ outcome.resp.kind = "ok") =>
        /\ outcome.backlogErr = "none"
        /\ Len(backlogTrace) = Len(outcome.resp.events)
        /\ \A i \in 1..Len(backlogTrace) :
             /\ backlogTrace[i].event = outcome.resp.events[i]
             /\ backlogTrace[i].handed = ~BacklogSkip(outcome.resp.events[i])

\* the insert of the first event failed and the second event was persisted
C17_Witness ==
    /\ outcome.branch = "backlog" /\ outcome.failing = {1}
    /\ Len(backlogTrace) = 2 /\ backlogTrace[1].handed /\ backlogTrace[2].handed
    /\ Len(db) = 1 /\ nframes = 1

\* C18: while a backlog request triggered by an oob_include frame is in
\* progress, a frame that has arrived can be read and processed without
\* waiting for the request to end.
C18_BackfillDoesNotBlock ==
    (reader = "fetching" /\ inbox # <<>>) => ENABLED ReaderRead

\* the largest element of a non-empty set of numbers
MaxOf(S) == CHOOSE x \in S : \A y \in S : y <= x

\* the event ids a processMessage call has come across: that of a
\* buffer_msg frame, and those of the buffer_msg events of a fetched batch
ObservedIn(o) ==
    (IF o.frame.valid /\ o.frame.type = "buffer_msg" THEN {o.frame.eid} ELSE {})
    \cup {o.resp.events[i].eid : i \in {j \in 1..Len(o.resp.events) :
                                          o.resp.events[j].type = "buffer_msg"}}

\* a heartbeat is written with the value lastSeenEID has at that moment
HeartbeatCarriesLastSeen ==
    (sent' # sent /\ sent'.method = "heartbeat") =>
        (sent'.last_seen_eid = lastSeenEID /\ lastSeenEID' = lastSeenEID)

\* C19: lastSeenEID is the maximum event id of all events observed
\* so far (0 if none), and every heartbeat carries the value lastSeenEID has
\* when it is sent.
C19_LastSeenAllObserved ==
    [][/\ nframes' = nframes + 1
            => lastSeenEID' = MaxOf({lastSeenEID} \cup ObservedIn(outcome'))
       /\ HeartbeatCarriesLastSeen]_vars

\* C20: the teardown of a failed connection and every step of the
\* connection attempts that follow, up to the start of the next message
\* loop, leave the de-duplication cache and lastSeenEID unchanged.
C20_ReconnectKeepsIngestState ==
    [][(pc # "message_loop" \/ pc' # "message_loop") =>
          (eidCache' = eidCache /\ lastSeenEID' = lastSeenEID)]_vars

\* a reconnect that authenticated again has succeeded at its second attempt,
\* with events in the cache
C20_Witness ==
    /\ pc = "retry_return" /\ caller = "Run" /\ result.kind = "ok"
    /\ attempts = 2 /\ authLog.did = "authenticate"
    /\ eidCache # {} /\ lastSeenEID > 0

----------------------------------------------------------------------------
(* Properties of the process *)

\* connectWithRetry has returned the error of an exhausted retry budget
Exhausted == pc = "retry_return" /\ result.kind = "exhausted"

\* the process has ended with an exit code other than 0: through log.Fatalf
\* (code 1) or through a panic (code 2)
ExitedNonZero == mainPc = "exited" /\ pc \in {"fatal", "panic"}

\* C21: when connectWithRetry has exhausted the retry budget, in Connect or
\* in the reconnection of Run, the process eventually ends with an exit
\* code other than 0, whether or not a signal arrives.
C21_ExhaustionFatal == Exhausted ~> ExitedNonZero

----------------------------------------------------------------------------
(* Properties of the timestamp resolution *)

\* the nanoseconds between the epoch and a time.Time
UnixNano(t) == t.sec * (MicrosPerSecond * NanosPerMicro) + t.nsec

\* the day, counted from the epoch, that a time.Time falls on
DayOf(t) == CHOOSE d \in 0..(t.sec \div SecondsPerDay + 1) :
                d * SecondsPerDay <= t.sec /\ t.sec < (d + 1) * SecondsPerDay

\* C22: every row that the stream processor or the backfill adds has, for an
\* event with serverTime t > 0, the timestamp exactly t microseconds after
\* the epoch (t * 1000 nanoseconds); for serverTime 0 the timestamp is the
\* time of processing and not the epoch; and its date is the day of its
\* timestamp.
C22_TimestampResolution ==
    [][\A i \in (Len(db) + 1)..Len(db') :
          LET t == insertLog'[i].time  ts == db'[i].timestamp IN
            insertLog'[i].via \in {"live", "backlog"} =>
              /\ ts.nsec \in 0..(MicrosPerSecond * NanosPerMicro - 1)
              /\ t > 0 => UnixNano(ts) = t * NanosPerMicro
              /\ t = 0 => (ts = Now /\ (ts.sec # 0 \/ ts.nsec # 0))
              /\ db'[i].date = DayOf(ts)]_vars

\* the store holds a live row stamped with the time of processing and a
\* backfill row stamped with its serverTime, of different dates
C22_Witness ==
    \E i, j \in 1..Len(db) :
        /\ insertLog[i].via = "live" /\ insertLog[i].time = 0
        /\ db[i].timestamp.sec = now /\ db[i].date > 0
        /\ insertLog[j].via = "backlog" /\ insertLog[j].time = SomeServerTime
        /\ db[j].timestamp.nsec > 0 /\ db[j].date = 0

----------------------------------------------------------------------------
(* Properties of the cleaner *)

\* C23: CleanIRCMessage returns a text for every input, and cleaning a
\* cleaned text returns it unchanged: the text stored for a message whose
\* text is a stored text is that same text.
C23_CleanerIdempotent ==
    /\ nframes >= 1 => (outcome.branch = "stored" /\ Len(db) = nframes)
    /\ nframes = 2 => (outcome.frame.msg = db[1].message /\ db[2].message = db[1].message)

\* a text that lost bytes in the first cleaning came through the second
C23_Witness ==
    /\ nframes = 2 /\ Len(db) = 2
    /\ outcome.frame.msg = <<97, SpaceByte, 97>> /\ db[2].message = <<97, SpaceByte, 97>>

\* the bytes the cleaned text must not contain
ControlBytes == {BoldByte, ColorByte, ResetByte, ItalicByte, StrikeByte, UnderlineByte}

AllDigits(w) == \A k \in 1..Len(w) : w[k] \in Digits

\* what may follow 0x03 in a colour code as C24 words it: at most two
\* digits, then optionally a comma and at most two digits
ColorTailAsStated(w) ==
    \E f \in 0..2 :
        /\ f <= Len(w) /\ AllDigits(SubSeq(w, 1, f))
        /\ \/ Len(w) = f
           \/ /\ Len(w) > f /\ w[f + 1] = CommaByte
              /\ Len(w) - (f + 1) <= 2 /\ AllDigits(SubSeq(w, f + 2, Len(w)))

\* what may follow 0x03 in a colour code: nothing, or one or two digits,
\* these optionally followed by a comma and one or two digits
ColorTailExact(w) ==
    \E f \in 0..2 :
        /\ f <= Len(w) /\ AllDigits(SubSeq(w, 1, f))
        /\ \/ Len(w) = f
           \/ /\ f >= 1 /\ Len(w) > f /\ w[f + 1] = CommaByte
              /\ Len(w) - (f + 1) \in 1..2 /\ AllDigits(SubSeq(w, f + 2, Len(w)))

\* the number of bytes after the 0x03 at position j that belong to its
\* colour code: the longest tail the grammar allows
TailLen(IsTail(_), s, j) ==
    CHOOSE n \in 0..5 :
        /\ j + n <= Len(s) /\ IsTail(SubSeq(s, j + 1, j + n))
        /\ \A m \in (n + 1)..5 : ~(j + m <= Len(s) /\ IsTail(SubSeq(s, j + 1, j + m)))

\* the positions of s that belong to no colour code and hold no marker
Kept(IsTail(_), s) ==
    {i \in 1..Len(s) :
        /\ s[i] \notin ControlBytes
        /\ ~\E j \in 1..(i - 1) : s[j] = ColorByte /\ i - j <= TailLen(IsTail, s, j)}

\* s with every colour code and every marker taken out
Stripped(IsTail(_), s) ==
    LET keep == Kept(IsTail, s)
    IN  [k \in 1..Cardinality(keep) |->
            s[CHOOSE i \in keep : Cardinality({m \in keep : m <= i}) = k]]

\* w without its leading and trailing white space
Trimmed(w) ==
    LET inked == {i \in 1..Len(w) : ~IsSpace(w[i])}
    IN  IF inked = {} THEN <<>>
        ELSE SubSeq(w, CHOOSE a \in inked : \A b \in inked : a <= b,
                       CHOOSE a \in inked : \A b \in inked : b <= a)

\* the text stored for the last frame is the frame's text with the colour
\* codes of the given grammar and the markers removed, then trimmed, and it
\* holds no control byte
CleanedAs(IsTail(_)) ==
    outcome.branch = "stored" =>
        /\ db[Len(db)].message = Trimmed(Stripped(IsTail, outcome.frame.msg))
        /\ Range(db[Len(db)].message) \cap ControlBytes = {}

\* C24: the cleaned text is the input with every colour code (0x03 followed
\* by at most two digits and an optional comma plus at most two digits) and
\* every bold, underline, italic, strikethrough and reset marker removed,
\* nothing else removed, then trimmed; it holds none of the bytes 0x02, 0x03,
\* 0x0F, 0x1D, 0x1E, 0x1F.
C24_CleanerAsStated == CleanedAs(ColorTailAsStated)

\* C24, amended: as C24, where a colour code is 0x03 alone or followed by
\* one or two digits, these optionally followed by a comma and one or two
\* digits; a comma that no digit precedes or no digit follows is not part
\* of a colour code and stays.
C24_CleanerExact == CleanedAs(ColorTailExact)

\* a text with white space, a colour code of foreground and background, and
\* a letter was stored as the letter
C24_Witness ==
    /\ nframes = 1 /\ outcome.branch = "stored"
    /\ outcome.frame.msg = <<SpaceByte, ColorByte, 49, CommaByte, 49, 97>>
    /\ db[1].message = <<97>>

----------------------------------------------------------------------------
(* Properties of the connection attempt *)

\* the login request of the last authenticate call was answered with a
\* failure: a status other than 200, a body that is no JSON, or success=false
LoginStepFailed ==
    /\ authLog.did = "authenticate"
    /\ authenticate(authLog.token, NoResponse).err
         = Errorf("could not perform login request: %w", "")
    /\ authLog.login.sent
    /\ \/ authLog.login.status # 200
       \/ ~authLog.login.body.json
       \/ ~authLog.login.body.success

\* C25: whenever the login step failed by a non-200 status, an unparsable
\* body or success=false, the error of authenticate is an AuthError of type
\* api_error that carries the status code of the login response and the
\* message of its body (the generic message when the body has none to read)
C25_LoginFailureIsApiError ==
    LoginStepFailed =>
        /\ authErr.kind = "AuthError"
        /\ authErr.Type = "api_error"
        /\ authErr.Status = authLog.login.status
        /\ authErr.Message \in {authLog.login.body.message, "Authentication failed"}

\* C26: a duration string that does not parse is replaced by its default:
\* the tickers of the message loop run at 30 s and 60 s, the dial has a
\* handshake timeout of 45 s, and the backoff delay is computed from an
\* initial delay of 1 s and capped at 5 min
C26_BadDurationFallsBack ==
    LET bad(f) == connConfig[f] = BadDuration
        fromOneSecond == CappedPower(1, connConfig.BackoffMultiplier, retryCount, 300)
    IN  /\ (bad("HeartbeatInterval") /\ timers # NoTickers) => timers.heartbeat = 30
        /\ (bad("PingInterval") /\ timers # NoTickers) => timers.ping = 60
        /\ (bad("ConnectionTimeout") /\ dial # NoDial) => dial.HandshakeTimeout = 45
        /\ (bad("InitialRetryDelay") /\ connConfig.MaxRetryDelay \in {BadDuration, "5m"}
              /\ pc = "backoff") => delay = fromOneSecond
        /\ (bad("MaxRetryDelay") /\ connConfig.InitialRetryDelay \in {BadDuration, "1s"}
              /\ pc = "backoff") => delay = fromOneSecond
        /\ (bad("MaxRetryDelay") /\ connConfig.InitialRetryDelay = "5m"
              /\ pc = "backoff") => delay = 300

\* no duration of the configuration parses; a first attempt has dialled with
\* the default timeout and failed, and the retry waits the default delay
C26_Witness ==
    /\ connConfig = WithBadDurations(DurationFields)
    /\ pc = "backoff"
    /\ retryCount = 1
    /\ delay = 2
    /\ dial.HandshakeTimeout = 45

\* the two parameters every streaming URL ends its query with
StreamQuery == <<"since_id=0", "&", "stream_id=0">>

\* a dial is made in this step, with the AuthResponse the client holds
Dials == pc = "dial" /\ pc' # "dial"

AttemptEnds == pc \in {"attempt", "dial"} /\ pc' \notin {"attempt", "dial"}
AttemptSucceeds == AttemptEnds /\ pc' = "retry_return" /\ result'.kind = "ok"

\* C30: an attempt that succeeds while a connection is held closes that
\* connection and leaves the client with exactly the new one as its only
\* open socket; an attempt that fails, in authentication or in the dial,
\* changes neither the connection handle nor the open sockets
C30_ConnectionReplaced ==
    [][/\ (AttemptSucceeds /\ conn # NoConn) =>
            /\ held \notin openSockets'
            /\ held' \notin openSockets
            /\ conn' = OpenConn
            /\ openSockets' = {held'}
       /\ (AttemptEnds /\ ~AttemptSucceeds) =>
            /\ conn' = conn
            /\ held' = held
            /\ openSockets' = openSockets]_vars

\* Connect was called on a client that held socket 1: socket 1 is closed
\* and socket 2 is the one held
C30_Witness ==
    /\ pc = "retry_return"
    /\ result.kind = "ok"
    /\ conn = OpenConn
    /\ held = 2
    /\ openSockets = {2}

----------------------------------------------------------------------------
(* Properties of the sequencing of frames *)

\* the goroutines that are inside processMessage between two steps: each is
\* in the backlog request of an oob_include frame
Processing == orphans + (IF reader = "fetching" THEN 1 ELSE 0)

\* C28: frames are processed one at a time, also across a reconnect: never
\* are two goroutines inside processMessage, and the reader goroutine of the
\* running loop processes a frame only while no goroutine of an earlier loop
\* is still processing its backfill batch
C28_OneFrameAtATime ==
    [][/\ Processing' <= 1
       /\ (reader = "reading" /\ nframes' # nframes /\ orphans' = orphans)
            => orphans = 0]_vars

----------------------------------------------------------------------------
(* Properties of the de-duplication cache *)

----------------------------------------------------------------------------
(* Properties of the authentication step *)

\* attemptConnection authenticates in this step, and authenticate fails
AuthenticationFails ==
    pc = "attempt" /\ authLog'.did = "authenticate" /\ authErr' # NoError

\* C31: a step in which attemptConnection authenticates changes no field of
\* the client except the three that attemptConnection assigns from the
\* result and the state and retry count that connectWithRetry keeps; when
\* the authentication fails, the cached AuthResponse, the session token and
\* the API host are what they were before the attempt
C31_AuthenticationKeepsState ==
    [][/\ (pc = "attempt" /\ authLog'.did = "authenticate") =>
            UNCHANGED <<conn, lastSeenEID, eidCache, maxCacheSize, channels,
                        ignoredChannels, channelSet, ignoredChannelSet, connConfig,
                        lastConnectTime, cancelled, held, openSockets, db>>
       /\ AuthenticationFails =>
            /\ authResp' = authResp
            /\ session' = session
            /\ apiHost' = apiHost]_vars

\* a reconnection whose cached authentication was stale authenticated
\* again and was refused: the cached values are still there
C31_Witness ==
    /\ authLog.did = "authenticate"
    /\ authLog.cached
    /\ authErr # NoError
    /\ authResp = AuthOf(PlainLogin.body)
    /\ session = SomeSession
    /\ apiHost = SomeAPIHost

----------------------------------------------------------------------------
(* Properties of the backoff sleeps of one connect sequence *)

\* C32: the sleep that ends before the attempt after k failed ones (k >= 1)
\* lasted min(initialDelay * multiplier^k, maxDelay); a sequence that
\* exhausts its budget of maxRetryAttempts failing attempts has slept
\* maxRetryAttempts - 1 times
C32_BackoffSlept ==
    [][/\ (pc = "backoff" /\ pc' = "attempt") =>
            /\ retryCount >= 1
            /\ sleeps' = retryCount
            /\ delay = CappedPower(ParseDuration(connConfig.InitialRetryDelay).seconds,
                                   connConfig.BackoffMultiplier, retryCount,
                                   ParseDuration(connConfig.MaxRetryDelay).seconds)
       /\ (pc' = "retry_return" /\ result'.kind = "exhausted") =>
            sleeps = connConfig.MaxRetryAttempts - 1]_vars

----------------------------------------------------------------------------
(* Properties of isEIDSeen as a test-and-set *)

\* the branches of processMessage on which isEIDSeen has returned false
NotSeenBranches == {"stored", "insert_error"}

\* C33: when isEIDSeen has returned false for an event id and the next call
\* of isEIDSeen is for the same event id, that call returns true
C33_TestAndSet ==
    [][(/\ nframes' # nframes
        /\ outcome.branch \in NotSeenBranches
        /\ outcome'.branch \in NotSeenBranches \cup {"duplicate"}
        /\ outcome'.frame.eid = outcome.frame.eid)
       => outcome'.branch = "duplicate"]_vars

----------------------------------------------------------------------------
(* Properties of processMessage on a failed insert *)

\* C34: when the insert of an accepted live event fails, no row is written
\* and its event id is in the cache after the call; a frame whose event id
\* is in the cache is dropped as a duplicate and writes no row
C34_FailedInsertStaysSeen ==
    [][nframes' # nframes =>
         /\ outcome'.branch = "insert_error" =>
              /\ outcome'.frame.eid \notin eidCache
              /\ db' = db
              /\ outcome'.frame.eid \in eidCache'
         /\ (outcome'.branch \in {"duplicate", "stored", "insert_error"}
               /\ outcome'.frame.eid \in eidCache) =>
              /\ outcome'.branch = "duplicate"
              /\ db' = db /\ eidCache' = eidCache]_vars

----------------------------------------------------------------------------
(* Properties of lastSeenEID *)

\* C35: lastSeenEID never decreases; it changes only in a processMessage
\* call that stores a live buffer_msg whose event id is larger, and becomes
\* that event id; calls that filter the frame, find a duplicate, fail to
\* insert or run the backfill leave it as it is
C35_LastSeenOnlyAdvances ==
    [][/\ lastSeenEID' >= lastSeenEID
       /\ lastSeenEID' # lastSeenEID =>
            /\ nframes' = nframes + 1
            /\ outcome'.branch = "stored"
            /\ outcome'.frame.type = "buffer_msg"
            /\ outcome'.frame.eid > lastSeenEID
            /\ lastSeenEID' = outcome'.frame.eid
            /\ Len(db') = Len(db) + 1
       /\ (nframes' # nframes
             /\ outcome'.branch \in {"filtered", "duplicate", "insert_error",
                                     "backlog", "unmarshal_error"}) =>
            lastSeenEID' = lastSeenEID]_vars

\* a backfill batch has stored a row while lastSeenEID is still 0
C35_Witness ==
    /\ outcome.branch = "backlog"
    /\ Len(db) > 0
    /\ lastSeenEID = 0

----------------------------------------------------------------------------
(* Properties of a closed client *)

\* connectWithRetry reaches the head of its loop on a closed client
ClosedAtLoopHead == pc = "retry_loop" /\ cancelled /\ pc' # pc

\* what every return from the loop head of a closed client has in common: no
\* authentication request, no dial, and the connection state as it was
NothingAttempted ==
    /\ pc' = "retry_return"
    /\ state' = state
    /\ conn' = conn /\ held' = held /\ openSockets' = openSockets
    /\ attempts' = 0
    /\ authLog' = NoAuthLog /\ authErr' = authErr
    /\ dial' = dial

\* C36 as stated: after Close, every Connect and every reconnection
\* sequence returns a cancellation failure without an authentication
\* request, without a dial and without a change of the connection state
C36_ClosedClientAnyBudget ==
    [][ClosedAtLoopHead => (NothingAttempted /\ result'.kind = "cancelled")]_vars

\* C36: after Close, every Connect and every reconnection sequence returns
\* without an authentication request, without a dial and without a change
\* of the connection state; what it returns is the cancellation failure if
\* maxRetryAttempts is at least 1 and the plain connection failure otherwise
C36_ClosedClient ==
    [][ClosedAtLoopHead =>
         /\ NothingAttempted
         /\ result'.kind = IF connConfig.MaxRetryAttempts >= 1 THEN "cancelled"
                                                                ELSE "failed"]_vars

\* Connect on a closed client has returned the cancellation failure
C36_Witness ==
    /\ cancelled
    /\ caller = "Connect"
    /\ pc = "retry_return"
    /\ result.kind = "cancelled"
    /\ state = StateDisconnected
    /\ attempts = 0

----------------------------------------------------------------------------
(* Properties of processMessage on a frame it does not take *)

\* a decoded frame that is not the gap-fill signal and that the condition of
\* processMessage turns away: another type, a channel of the deny-list, or a
\* channel missing from a non-empty allow-list
TurnedAway(f) ==
    /\ f.valid
    /\ f.type # "oob_include"
    /\ \/ f.type # "buffer_msg"
       \/ Lookup(ignoredChannelSet, f.chan)
       \/ (Len(channels) > 0 /\ ~Lookup(channelSet, f.chan))

\* C37: a frame that is neither the gap-fill signal nor an accepted live
\* message changes nothing: no row is inserted, the de-duplication cache is
\* unchanged (its eventID is not marked seen), lastSeenEID is unchanged and
\* no error is reported
C37_TurnedAwayChangesNothing ==
    [][(nframes' # nframes /\ TurnedAway(outcome'.frame)) =>
         /\ db' = db
         /\ insertLog' = insertLog
         /\ eidCache' = eidCache
         /\ lastSeenEID' = lastSeenEID
         /\ backlogTrace' = backlogTrace
         /\ outcome'.err = "none"]_vars

\* a buffer_msg of a denied channel was turned away by a client that had
\* stored an earlier event, and its eventID is not in the cache
C37_Witness ==
    /\ nframes = MaxFrames
    /\ outcome.frame.type = "buffer_msg"
    /\ TurnedAway(outcome.frame)
    /\ eidCache # {}
    /\ outcome.frame.eid \notin eidCache
    /\ lastSeenEID > 0

----------------------------------------------------------------------------
(* Properties of the reader goroutines of ended message loops *)

\* a reader goroutine whose message loop has ended returns from processMessage
\* and calls ReadMessage on the handle the client holds at that moment
OrphanReadsAgain == orphans' < orphans

\* C38: every reader goroutine ends once its connection has been closed: a
\* reader whose message loop has ended does not dereference the released
\* handle, and does not go on reading a connection installed after its own
C38_ReaderEndsWithItsConnection ==
    [][OrphanReadsAgain => (pc' # "panic" /\ conn = NoConn)]_vars

----------------------------------------------------------------------------
(* Properties of the shutdown of Run *)

\* Close has been called (by main or by Run's interrupt case), which also
\* raises the cancellation signal
ShutdownAsked == cancelled

\* Run has returned
RunReturned == pc = "run_returned"

\* main has returned and the process has ended with it, Run included
MainReturned == mainPc = "exited" /\ pc # "panic"

\* C39: Run terminates on shutdown: from every reachable state of a running
\* client, once Close has been called or the cancellation signal has been
\* raised, Run eventually returns (at the latest when main itself returns)
C39_RunReturnsOnShutdown == ShutdownAsked ~> (RunReturned \/ MainReturned)

----------------------------------------------------------------------------
(* Properties of the connection handle under a concurrent Close *)

\* a goroutine has called a method of the connection through the nil handle
NilHandleUsed == pc = "panic"

\* a connection is open on a client whose Close has returned
OpenAfterClose == cancelled /\ openSockets # {}

\* C40: the connection handle is never used after it has been cleared: with
\* Close running beside Run, beside a connection attempt or beside a second
\* Close, no write or close call goes through the nil handle, and no
\* connection installed by the attempt is left open once Close has returned
C40_HandleNotUsedAfterClear == ~NilHandleUsed /\ ~OpenAfterClose

====
